---- MODULE Spec2Model ----
(***************************************************************************)
(* Scanner core of the day-trading platform: the Redis bar store, the IBKR *)
(* ingestor (scanner_ingest_ws), the synthetic-bar command, the engine     *)
(* tick (run_engine_once) and the Pushover worker.                         *)
(*                                                                         *)
(* Time is counted in whole minutes of exchange-local (America/New_York)   *)
(* wall clock since local midnight of a reference date; the modelled       *)
(* window holds no DST change.  Prices and volumes are integers; every     *)
(* derived float (rVol, pct change, score) is an exact rational <<n, d>>   *)
(* with d > 0.  Python's None / SQL NULL is the empty tuple.               *)
(***************************************************************************)
EXTENDS Integers, Sequences, FiniteSets, TLC

\* ------------------------------------------------------------------ bounds
MaxPushed == 3
MaxEvents == 2
MaxCmdRuns == 2
MaxTestEvents == 1
MaxPushRuns == 2
MaxPushLog == 4

\* ------------------------------------------------------- program constants
DAY_START_HOUR == 4
DAY_START_MINUTE == 0
MinutesPerDay == 1440
MaxConnectAttempts == 5
CmdKeep == 180
MaxBarsRebuild == 2000
MinBarsForMetrics == 6
RVOL_1M_BASELINE_MINUTES_DEFAULT == 45
RVOL_5M_BASELINE_MINUTES_DEFAULT == 90

Null == <<>>

Symbols == {"A", "B"}
Users == {1, 2}
SymOrder == <<"A", "B">>

\* ---------------------------------------------------------------- helpers
Max2(a, b) == IF a >= b THEN a ELSE b
Min2(a, b) == IF a <= b THEN a ELSE b

RECURSIVE ReverseSeq(_)
ReverseSeq(s) == IF s = <<>> THEN <<>> ELSE ReverseSeq(Tail(s)) \o <<Head(s)>>

RECURSIVE SeqMax(_)
SeqMax(s) == IF Len(s) = 1 THEN s[1] ELSE Max2(s[1], SeqMax(Tail(s)))

RECURSIVE SeqSum(_)
SeqSum(s) == IF s = <<>> THEN 0 ELSE s[1] + SeqSum(Tail(s))

Range(s) == {s[i] : i \in 1..Len(s)}

\* sorted(set_of_symbols): the symbols of S in lexicographic order
SortedSyms(S) == SelectSeq(SymOrder, LAMBDA x : x \in S)

\* ------------------------------------------------------------ trading day
\* trading_day_for_utc: local time before 04:00 belongs to the previous date
TradingDayId(ts) == (ts - (DAY_START_HOUR * 60 + DAY_START_MINUTE)) \div MinutesPerDay

Days == {-1, 0}
BarKeys == Days \X Symbols

\* -------------------------------------------------------------- bar store
VARIABLES
    redisBars,   \* scanner:bars:{day}:{SYM} -> list of bars, newest first
    redisHod,    \* scanner:hod:{day}:{SYM} -> {hod, prev_hod, ts} or Null
    universe,    \* symbols of the enabled ScannerUniverseTicker rows
    clock,       \* timezone.now(), in minutes
    ing,         \* the ingestor process: _main and _run_ibkr locals
    cmd,         \* the scanner_emit_test_bar command
    pushed,      \* history per key since it was last deleted: highest high of all bars
                 \* pushed (hi) and of all but the last one (prevHi); n counts the bars
                 \* pushed after the initial state
    purged,      \* history: symbols whose delete_symbol returned and that are still out of the universe
    config,      \* the ScannerConfig row (id = 1)
    events,      \* the ScannerTriggerEvent table
    nextEventId, \* its auto-increment id
    tick,        \* the scanner_tick workers: locals of scanner_tick / run_engine_once
    pushQueue,   \* event ids handed to scanner_notify_pushover_trigger.delay
    userSettings,\* the UserScannerSettings rows, by user id
    pushCache,   \* Django cache keys scanner:pushover:sent:{event}:{user} -> expiry, or Null
    attempts,    \* history: the HTTP POSTs made to the push provider, in order
    pw,          \* the scanner_notify_pushover_trigger workers: locals of the task, and
                 \* (history) the users whose cache.add this execution found taken
                 \* and the users its per-user gating skipped
    appToken,    \* settings.PUSHOVER_APP_TOKEN of the deployment is non-empty
    pushRuns,    \* history: number of task executions started
    feed,        \* per user: the GET /triggers/ (list or detail) request in progress and
                 \* the last response it returned
    fan,         \* one call of publish_trigger_event_to_users / publish_hotlist_to_users
    rebuildLog,  \* history per key: the bars read, the value returned and the record
                 \* stored by the last direct call of rebuild_hod_state_from_bars
    dayq,        \* one call of trading_day_id: the UTC instant and the day id returned
    req,         \* the last response of a permission-guarded REST endpoint
    wsSent,      \* history: the group_send calls made by the engine tick and the admin
                 \* endpoints, as (origin, kind, user group, payload)
    hotq,        \* one evaluation of the HOT5 selection: the metrics list and its result
    conns,       \* the websocket connections: scope user, state, joined group, frames received
    groups,      \* the channel layer: group user_{id} -> channel names
    hb,          \* the monitor task's heartbeat: monotonic time, last_heartbeat,
                 \* the scanner:ingestor:heartbeat key
    tickLog,     \* history: the ticks that found the scanner disabled, and the
                 \* exceptions thrown inside the symbol loop, by worker
    barLog,      \* history per key: the bars handed to push_bar with keep = N by
                 \* direct calls, newest first
    pruneArg,    \* history: the argument of the latest retention run, or Null
    fired,       \* history: <<event id, symbol, ts of the bar the metrics were taken
                 \* from>> for every event the engine created
    creating,    \* per creator (tick worker, or 0 for the admin view): the local `ev`
                 \* between objects.create and delay, with the admin view's position
    orderLog     \* history: the create, publish and delay calls in the order made

engineVars == <<config, events, nextEventId, tick, pushQueue>>
pushVars == <<userSettings, pushCache, attempts, pw, appToken, pushRuns>>
apiVars == <<feed, fan>>
histVars == <<barLog, pruneArg, fired, creating, orderLog>>
auxVars == <<rebuildLog, dayq, req, wsSent, hotq, conns, groups, hb, tickLog, histVars>>

\* (wrong variant) RPUSH for LPUSH: the new bar goes to the tail and is trimmed away
PushBarAtTail(store, sym, bar, keep, day) ==
    LET d == IF day = Null THEN TradingDayId(bar.ts) ELSE day[1]
        k == <<d, sym>>
        max_i == Max2(keep - 1, 0)
        pushedList == store[k] \o <<bar>>
    IN [store EXCEPT ![k] = SubSeq(pushedList, 1, Min2(Len(pushedList), max_i + 1))]

\* push_bar: LPUSH + LTRIM 0..max(keep-1,0) in one MULTI/EXEC pipeline
PushBar(store, sym, bar, keep, day) ==
    LET d == IF day = Null THEN TradingDayId(bar.ts) ELSE day[1]
        k == <<d, sym>>
        max_i == Max2(keep - 1, 0)
        pushedList == <<bar>> \o store[k]
    IN [store EXCEPT ![k] = SubSeq(pushedList, 1, Min2(Len(pushedList), max_i + 1))]

\* (wrong variant) the list of the day before read in front of the day's own
FetchBarsAcrossDays(store, sym, minutes, day) ==
    LET want == Max2(minutes + 6, 10)
        raw == store[<<day, sym>>] \o
               (IF <<day - 1, sym>> \in DOMAIN store THEN store[<<day - 1, sym>>] ELSE <<>>)
    IN ReverseSeq(SubSeq(raw, 1, Min2(Len(raw), want)))

\* fetch_bars for one symbol: LRANGE 0..want-1, reversed to oldest-first
FetchBars(store, sym, minutes, day) ==
    LET want == Max2(minutes + 6, 10)
        raw == store[<<day, sym>>]
    IN ReverseSeq(SubSeq(raw, 1, Min2(Len(raw), want)))

\* fetch_all_bars: LRANGE 0..max_bars-1, reversed to oldest-first
FetchAllBars(store, sym, day) ==
    LET raw == store[<<day, sym>>]
    IN ReverseSeq(SubSeq(raw, 1, Min2(Len(raw), MaxBarsRebuild)))

NoHod == [ts |-> Null, hod |-> Null, prev_hod |-> Null]

\* get_hod_state: (None, None, None) when the key is missing
GetHodState(hods, sym, day) ==
    IF hods[<<day, sym>>] = Null THEN NoHod ELSE hods[<<day, sym>>]

\* update_hod_state: defined by the bar store, called by no code path
UpdateHodState(hods, sym, day, bar_high, bar_ts) ==
    LET prior == GetHodState(hods, sym, day).hod
        payload == IF prior = Null
                   THEN [ts |-> <<bar_ts>>, hod |-> <<bar_high>>, prev_hod |-> Null]
                   ELSE [ts |-> <<bar_ts>>, hod |-> <<Max2(prior[1], bar_high)>>,
                         prev_hod |-> prior]
    IN [hods EXCEPT ![<<day, sym>>] = payload]

\* rebuild_hod_state_from_bars, the value computed from the fetched bars
RebuildHodValue(bars) ==
    IF bars = <<>> THEN NoHod
    ELSE [ts |-> <<bars[Len(bars)].ts>>,
          hod |-> <<SeqMax([i \in 1..Len(bars) |-> bars[i].h])>>,
          prev_hod |-> IF Len(bars) >= 2
                       THEN <<SeqMax([i \in 1..(Len(bars) - 1) |-> bars[i].h])>>
                       ELSE Null]

\* delete_symbol, the SCAN half: the keys matching scanner:bars:*:SYM / scanner:hod:*:SYM
ScanSymbolKeys(store, hods, sym) ==
    [hods |-> {k \in BarKeys : k[2] = sym /\ hods[k] # Null},
     bars |-> {k \in BarKeys : k[2] = sym /\ store[k] # <<>>}]

NonePushed == [n |-> 0, hi |-> Null, prevHi |-> Null]

RECURSIVE PushedCount(_, _)
PushedCount(p, keys) ==
    IF keys = {} THEN 0
    ELSE LET k == CHOOSE x \in keys : TRUE
         IN p[k].n + PushedCount(p, keys \ {k})

\* the model stops accepting bars once MaxPushed of them are held in the history
PushBudget(p) == PushedCount(p, BarKeys) < MaxPushed

\* the history after one more bar with high h was pushed
NotePush(p, h) ==
    [n |-> p.n + 1,
     hi |-> IF p.hi = Null THEN <<h>> ELSE <<Max2(p.hi[1], h)>>,
     prevHi |-> p.hi]

\* ------------------------------------------------------------ universe admin
\* ScannerUniverseTicker rows written through the admin REST surface
UniverseAdd(s) ==
    /\ s \notin universe
    /\ universe' = universe \cup {s}
    /\ purged' = purged \ {s}
    /\ UNCHANGED <<redisBars, redisHod, clock, ing, cmd, pushed, engineVars, pushVars, apiVars, auxVars>>

UniverseRemove(s) ==
    /\ s \in universe
    /\ universe' = universe \ {s}
    /\ UNCHANGED <<redisBars, redisHod, clock, ing, cmd, pushed, purged, engineVars, pushVars, apiVars, auxVars>>

\* ------------------------------------------------------------------ ingestor
NoLastPushed == [s \in Symbols |-> Null]

\* _run_ibkr entry: fresh IB(), last_pushed = None for every symbol, no subscriptions
StartRun(st, cur) ==
    [st EXCEPT !.pc = "connect", !.current = cur, !.attempt = 1,
               !.lastPushed = NoLastPushed, !.subscriptions = {},
               !.subTodo = SortedSyms(cur), !.reconnectRequested = FALSE,
               !.connected = FALSE, !.delQueue = {}, !.delScan = Null]

\* _main after the delete loop: "current = set()" + idle sleep, or "current = desired" + _run_ibkr
AfterDelete(st) ==
    IF st.delThen = "idle"
    THEN [st EXCEPT !.pc = "main_sleep", !.current = {}, !.delQueue = {}, !.delScan = Null]
    ELSE StartRun(st, st.desired)

\* _main, one pass of "while True" up to its first suspension point
MainTop ==
    /\ ing.pc = "main_top"
    /\ LET desired == universe
           st == [ing EXCEPT !.desired = desired]
       IN ing' = IF desired = {}
                 THEN IF ing.current # {}
                      THEN [st EXCEPT !.pc = "del_scan", !.delQueue = ing.current,
                                      !.delThen = "idle"]
                      ELSE [st EXCEPT !.pc = "main_sleep"]
                 ELSE IF desired # ing.current
                      THEN IF ing.current \ desired # {}
                           THEN [st EXCEPT !.pc = "del_scan",
                                           !.delQueue = ing.current \ desired,
                                           !.delThen = "run"]
                           ELSE StartRun(st, desired)
                      ELSE [st EXCEPT !.pc = "main_sleep"]
    /\ UNCHANGED <<redisBars, redisHod, universe, clock, cmd, pushed, purged, engineVars, pushVars, apiVars, auxVars>>

\* every asyncio.sleep of _main ends in "continue" / the next loop pass
MainWake ==
    /\ ing.pc = "main_sleep"
    /\ ing' = [ing EXCEPT !.pc = "main_top"]
    /\ UNCHANGED <<redisBars, redisHod, universe, clock, cmd, pushed, purged, engineVars, pushVars, apiVars, auxVars>>

\* delete_symbol(sym), SCAN of both patterns; "if not keys: return 0"
DeleteScan(sym) ==
    /\ ing.pc = "del_scan"
    /\ sym \in ing.delQueue
    /\ LET found == ScanSymbolKeys(redisBars, redisHod, sym)
           rest == ing.delQueue \ {sym}
       IN IF found.bars = {} /\ found.hods = {}
          THEN /\ ing' = IF rest = {} THEN AfterDelete(ing)
                         ELSE [ing EXCEPT !.delQueue = rest]
               /\ purged' = IF sym \in universe THEN purged ELSE purged \cup {sym}
          ELSE /\ ing' = [ing EXCEPT !.pc = "del_exec",
                                     !.delScan = [sym |-> sym, keys |-> found]]
               /\ purged' = purged
    /\ UNCHANGED <<redisBars, redisHod, universe, clock, cmd, pushed, engineVars, pushVars, apiVars, auxVars>>

\* delete_symbol(sym), DEL of the scanned keys
DeleteExec ==
    /\ ing.pc = "del_exec"
    /\ LET sym == ing.delScan.sym
           keys == ing.delScan.keys
           rest == ing.delQueue \ {sym}
       IN /\ redisBars' = [k \in BarKeys |-> IF k \in keys.bars THEN <<>> ELSE redisBars[k]]
          /\ redisHod' = [k \in BarKeys |-> IF k \in keys.hods THEN Null ELSE redisHod[k]]
          /\ pushed' = [k \in BarKeys |-> IF k \in keys.bars THEN NonePushed ELSE pushed[k]]
          /\ purged' = IF sym \in universe THEN purged ELSE purged \cup {sym}
          /\ ing' = IF rest = {} THEN AfterDelete(ing)
                    ELSE [ing EXCEPT !.pc = "del_scan", !.delQueue = rest, !.delScan = Null]
    /\ UNCHANGED <<universe, clock, cmd, engineVars, pushVars, apiVars, auxVars>>

\* connect(): one connectAsync attempt that ends with ib.isConnected()
ConnectOk ==
    /\ ing.pc = "connect"
    /\ ing' = [ing EXCEPT !.pc = "subscribe", !.connected = TRUE]
    /\ UNCHANGED <<redisBars, redisHod, universe, clock, cmd, pushed, purged, engineVars, pushVars, apiVars, auxVars>>

\* what follows an exception that leaves _run_ibkr: the finally block runs
\* (unsubscribe_all, disconnect), then nothing in _main or handle catches it
RunRaises(st) ==
    [st EXCEPT !.pc = "crashed", !.subscriptions = {}, !.connected = FALSE]

\* connect(): a failed attempt; after the 5th, "raise RuntimeError"
ConnectFail ==
    /\ ing.pc = "connect"
    /\ ing' = IF ing.attempt < MaxConnectAttempts
              THEN [ing EXCEPT !.attempt = @ + 1]
              ELSE RunRaises(ing)
    /\ UNCHANGED <<redisBars, redisHod, universe, clock, cmd, pushed, purged, engineVars, pushVars, apiVars, auxVars>>

\* subscribe_all(): qualify + reqHistoricalData(keepUpToDate) of the next symbol,
\* answered by the gateway; past the last symbol, monitor() starts
SubscribeNext ==
    /\ ing.pc = "subscribe"
    /\ ing.subTodo # <<>> => ing.connected
    /\ ing' = IF ing.subTodo = <<>>
              THEN [ing EXCEPT !.pc = "monitor"]
              ELSE LET sym == Head(ing.subTodo)
                   IN IF sym \notin ing.current
                      THEN [ing EXCEPT !.subTodo = Tail(@)]
                      ELSE [ing EXCEPT !.subTodo = Tail(@),
                                       !.subscriptions = @ \cup {sym}]
    /\ UNCHANGED <<redisBars, redisHod, universe, clock, cmd, pushed, purged, engineVars, pushVars, apiVars, auxVars>>

\* subscribe_all(): qualifyContractsAsync / reqHistoricalDataAsync raises for a symbol
SubscribeError ==
    /\ ing.pc = "subscribe"
    /\ ing.subTodo # <<>>
    /\ ing' = RunRaises(ing)
    /\ UNCHANGED <<redisBars, redisHod, universe, clock, cmd, pushed, purged, engineVars, pushVars, apiVars, auxVars>>

\* the gateway drops the session
GatewayDrop ==
    /\ ing.pc \in {"subscribe", "monitor"}
    /\ ing.connected
    /\ ing' = [ing EXCEPT !.connected = FALSE]
    /\ UNCHANGED <<redisBars, redisHod, universe, clock, cmd, pushed, purged, engineVars, pushVars, apiVars, auxVars>>

\* the finally block of _run_ibkr and the return to _main (both sleeps, then continue)
Teardown(st, requested) ==
    [st EXCEPT !.pc = "main_sleep", !.subscriptions = {}, !.connected = FALSE,
               !.reconnectRequested = requested]

\* monitor(): one loop pass; `poll` says whether the universe poll is due
MonitorPass(poll) ==
    /\ ing.pc = "monitor"
    /\ ing' = IF poll /\ universe # ing.current
              THEN Teardown(ing, TRUE)
              ELSE IF ~ing.connected
                   THEN Teardown(ing, FALSE)
                   ELSE ing
    /\ UNCHANGED <<redisBars, redisHod, universe, clock, cmd, pushed, purged, engineVars, pushVars, apiVars, auxVars>>

\* push_from_ib_bar via _on_update(has_new_bar = True); storeOk = FALSE: push_bar raises
FeedBar(sym, bar, storeOk) ==
    /\ ing.pc \in {"subscribe", "monitor"}
    /\ ing.connected
    /\ sym \in ing.subscriptions
    /\ PushBudget(pushed)
    /\ LET prev == ing.lastPushed[sym]
           k == <<TradingDayId(bar.ts), sym>>
       IN IF sym \notin ing.current \/ (prev # Null /\ bar.ts <= prev[1])
          THEN UNCHANGED <<ing, redisBars, pushed>>
          ELSE /\ ing' = [ing EXCEPT !.lastPushed[sym] = <<bar.ts>>]
               /\ IF storeOk
                  THEN /\ redisBars' = PushBar(redisBars, sym, bar, ing.keep, Null)
                       /\ pushed' = [pushed EXCEPT ![k] = NotePush(@, bar.h)]
                  ELSE UNCHANGED <<redisBars, pushed>>
    /\ UNCHANGED <<redisHod, universe, clock, cmd, purged, engineVars, pushVars, apiVars, auxVars>>

\* ------------------------------------------------- scanner_emit_test_bar
\* bar i of the command: o = prev_close, c = o + step, h = max(o,c) + step/2,
\* l = min(o,c) - step/5 (steps are multiples of 10, so both are whole)
CmdBar(c, i) ==
    LET o == c.start_price + i * c.step
        cl == o + c.step
    IN [ts |-> c.start_ts + i, h |-> Max2(o, cl) + c.step \div 2, c |-> cl,
        o |-> o,
        l |-> Min2(o, cl) - c.step \div 5,
        v |-> IF c.flat_volume # Null /\ c.spike_volume # Null
              THEN (IF i = c.n - 1 THEN c.spike_volume[1] ELSE c.flat_volume[1])
              ELSE (c.start_volume * 6^i) \div 5^i]

CmdIdle == [pc |-> "idle", runs |-> 0]

\* handle(): argument parsing and start_ts = now - start_minutes_ago
CmdStart(sym, n, ago, price, step, vol, flat, spike) ==
    /\ cmd.pc = "idle"
    /\ cmd.runs < MaxCmdRuns
    /\ cmd' = [i |-> 0, sym |-> sym, n |-> n, pc |-> "run", start_price |-> price,
               step |-> step, start_ts |-> clock - ago, flat_volume |-> flat,
               spike_volume |-> spike, start_volume |-> vol, runs |-> cmd.runs + 1]
    /\ UNCHANGED <<redisBars, redisHod, universe, clock, ing, pushed, purged, engineVars, pushVars, apiVars, auxVars>>

\* handle(): one pass of "for i in range(n)": push_bar(symbol, bar, keep=180)
CmdPush ==
    /\ cmd.pc = "run"
    /\ cmd.i < cmd.n => PushBudget(pushed)
    /\ IF cmd.i >= cmd.n
       THEN /\ cmd' = [pc |-> "idle", runs |-> cmd.runs]
            /\ UNCHANGED <<redisBars, pushed>>
       ELSE LET bar == CmdBar(cmd, cmd.i)
                k == <<TradingDayId(bar.ts), cmd.sym>>
            IN /\ redisBars' = PushBar(redisBars, cmd.sym, bar, CmdKeep, Null)
               /\ pushed' = [pushed EXCEPT ![k] = NotePush(@, bar.h)]
               /\ cmd' = [cmd EXCEPT !.i = @ + 1]
    /\ UNCHANGED <<redisHod, universe, clock, ing, purged, engineVars, pushVars, apiVars, auxVars>>

\* ------------------------------------------------------------- rationals
RECURSIVE Gcd(_, _)
Gcd(a, b) == IF b = 0 THEN a ELSE Gcd(b, a % b)
Abs(x) == IF x < 0 THEN -x ELSE x

\* a float as an exact fraction in lowest terms, denominator > 0
RNorm(q) ==
    LET g == Gcd(Abs(q[1]), q[2])
    IN IF g = 0 THEN <<0, 1>> ELSE <<q[1] \div g, q[2] \div g>>
R(n) == <<n, 1>>
RGe(a, b) == a[1] * b[2] >= b[1] * a[2]
RGt(a, b) == a[1] * b[2] > b[1] * a[2]
RLt(a, b) == a[1] * b[2] < b[1] * a[2]
RMax(a, b) == IF RGe(a, b) THEN a ELSE b
RMin(a, b) == IF RGe(a, b) THEN b ELSE a
RAdd(a, b) == RNorm(<<a[1] * b[2] + b[1] * a[2], a[2] * b[2]>>)
RMul(a, b) == RNorm(<<a[1] * b[1], a[2] * b[2]>>)
\* a / b for b > 0
RDiv(a, b) == RNorm(<<a[1] * b[2], a[2] * b[1]>>)

\* ---------------------------------------------------------------- engine
\* _avg: 0.0 for an empty list
Avg(values) == IF values = <<>> THEN R(0) ELSE RNorm(<<SeqSum(values), Len(values)>>)

\* bars[-(lb + 1):-1]: the lb bars before the last one
BaselineSlice(bars, lb) ==
    IF lb > 0 THEN SubSeq(bars, Len(bars) - lb, Len(bars) - 1) ELSE <<>>

\* the rolling 5-bar volume sums over a slice (none when it is shorter than 5)
Rolling5Sums(vols) ==
    IF Len(vols) >= 5
    THEN [j \in 1..(Len(vols) - 4) |-> vols[j] + vols[j + 1] + vols[j + 2] + vols[j + 3] + vols[j + 4]]
    ELSE <<>>

\* (x - y) / max(y, 1e-9) * 100; every modelled close is >= 1, so max(y, 1e-9) = y
PctChange(x, y) == RNorm(<<(x - y) * 100, y>>)

\* compute_metrics for a list of at least 6 bars, oldest first; hod is a number,
\* prior_hod a number in a 1-tuple or Null
ComputeMetrics(symbol, bars, lookback_minutes, hod, prior_hod) ==
    LET n == Len(bars)
        last == bars[n]
        prev == bars[n - 1]
        prev5 == bars[n - 5]
        vol_1m == last.v
        vol_5m == SeqSum([i \in 1..5 |-> bars[n - 5 + i].v])
        base_1m == Max2(5, RVOL_1M_BASELINE_MINUTES_DEFAULT)
        base_5m == Max2(10, RVOL_5M_BASELINE_MINUTES_DEFAULT)
        avail_excl_last == n - 1
        lb_1m == Min2(base_1m, avail_excl_last)
        slice_1m == BaselineSlice(bars, lb_1m)
        avg_vol_1m == Avg([i \in 1..Len(slice_1m) |-> slice_1m[i].v])
        lb_5m == Min2(base_5m, avail_excl_last)
        slice_5m == BaselineSlice(bars, lb_5m)
        avg_vol_5m == Avg(Rolling5Sums([i \in 1..Len(slice_5m) |-> slice_5m[i].v]))
        rvol_1m == RDiv(R(vol_1m), RMax(avg_vol_1m, R(1)))
        rvol_5m == RDiv(R(vol_5m), RMax(avg_vol_5m, R(1)))
        pct_change_1m == PctChange(last.c, prev.c)
        pct_change_5m == PctChange(last.c, prev5.c)
        ph == IF prior_hod = Null
              THEN SeqMax([i \in 1..(n - 1) |-> bars[i].h])
              ELSE prior_hod[1]
        broke_hod == last.h > ph
        score == RAdd(RAdd(RMul(RMin(rvol_1m, R(20)), R(5)),
                           RMul(RMin(RMax(pct_change_1m, R(0)), R(10)), R(4))),
                      IF broke_hod THEN R(20) ELSE R(0))
        reason_tags ==
            (IF RGe(rvol_1m, R(1)) THEN <<"RVOL_1M">> ELSE <<>>)
            \o (IF RGe(rvol_5m, R(1)) THEN <<"RVOL_5M">> ELSE <<>>)
            \o (IF RGe(pct_change_1m, R(0)) THEN <<"UP_1M">> ELSE <<>>)
            \o (IF broke_hod THEN <<"HOD_BREAK">> ELSE <<>>)
    IN [bar |-> last, hod |-> R(hod), symbol |-> symbol, vol_1m |-> R(vol_1m),
        vol_5m |-> R(vol_5m), rvol_1m |-> rvol_1m, rvol_5m |-> rvol_5m,
        pct_change_1m |-> pct_change_1m, pct_change_5m |-> pct_change_5m,
        broke_hod |-> broke_hod, score |-> score, reason_tags |-> reason_tags,
        avg_vol_1m_lookback |-> avg_vol_1m]

\* ---- deliberately wrong variants of the code, to show that the properties
\* ---- below tell the code from them
\* should_trigger that attaches every threshold tag once the gate passes
ShouldTriggerAllTags(m, cfg) ==
    LET price_ok0 == RGe(m.pct_change_1m, cfg.min_pct_change_1m)
                     \/ RGe(m.pct_change_5m, cfg.min_pct_change_5m)
        price_ok == IF cfg.require_hod_break THEN price_ok0 /\ m.broke_hod ELSE price_ok0
    IN IF RLt(m.vol_1m, R(cfg.min_vol_1m)) THEN <<FALSE, <<>>>>
       ELSE IF RLt(m.rvol_1m, cfg.rvol_1m_threshold) /\ RLt(m.rvol_5m, cfg.rvol_5m_threshold)
            THEN <<FALSE, <<>>>>
       ELSE IF ~price_ok THEN <<FALSE, <<>>>>
       ELSE IF cfg.require_green_candle /\ ~(m.bar.c >= m.bar.o) THEN <<FALSE, <<>>>>
       ELSE <<TRUE, <<"RVOL_1M_THR", "RVOL_5M_THR", "PCT_1M_THR", "PCT_5M_THR">>
                    \o (IF m.broke_hod THEN <<"HOD_BREAK">> ELSE <<>>)>>

\* should_trigger without the require_green_candle check
ShouldTriggerNoGreenCheck(m, cfg) ==
    LET price_ok0 == RGe(m.pct_change_1m, cfg.min_pct_change_1m)
                     \/ RGe(m.pct_change_5m, cfg.min_pct_change_5m)
        price_ok == IF cfg.require_hod_break THEN price_ok0 /\ m.broke_hod ELSE price_ok0
        tags == (IF RGe(m.rvol_1m, cfg.rvol_1m_threshold) THEN <<"RVOL_1M_THR">> ELSE <<>>)
                \o (IF RGe(m.rvol_5m, cfg.rvol_5m_threshold) THEN <<"RVOL_5M_THR">> ELSE <<>>)
                \o (IF RGe(m.pct_change_1m, cfg.min_pct_change_1m) THEN <<"PCT_1M_THR">> ELSE <<>>)
                \o (IF RGe(m.pct_change_5m, cfg.min_pct_change_5m) THEN <<"PCT_5M_THR">> ELSE <<>>)
                \o (IF m.broke_hod THEN <<"HOD_BREAK">> ELSE <<>>)
    IN IF RLt(m.vol_1m, R(cfg.min_vol_1m)) THEN <<FALSE, <<>>>>
       ELSE IF RLt(m.rvol_1m, cfg.rvol_1m_threshold) /\ RLt(m.rvol_5m, cfg.rvol_5m_threshold)
            THEN <<FALSE, <<>>>>
       ELSE IF ~price_ok THEN <<FALSE, <<>>>>
       ELSE <<TRUE, tags>>

\* allow_trigger_with_cooldown without "if not cfg.realert_on_new_hod: return False"
AllowTriggerRealertAlways(m, cfg, now, last_ev) ==
    LET cutoff == now - cfg.cooldown_minutes
    IN IF last_ev = Null THEN TRUE
       ELSE IF last_ev.triggered_at < cutoff THEN TRUE
       ELSE RGt(m.hod, IF last_ev.hod = Null THEN R(0) ELSE last_ev.hod)

\* allow_trigger_with_cooldown with ">=" for ">" in the hod comparison
AllowTriggerOnEqualHod(m, cfg, now, last_ev) ==
    LET cutoff == now - cfg.cooldown_minutes
    IN IF last_ev = Null THEN TRUE
       ELSE IF last_ev.triggered_at < cutoff THEN TRUE
       ELSE IF ~cfg.realert_on_new_hod THEN FALSE
       ELSE RGe(m.hod, IF last_ev.hod = Null THEN R(0) ELSE last_ev.hod)

\* should_trigger: <<ok, tags>>
ShouldTrigger(m, cfg) ==
    LET price_ok0 == RGe(m.pct_change_1m, cfg.min_pct_change_1m)
                     \/ RGe(m.pct_change_5m, cfg.min_pct_change_5m)
        price_ok == IF cfg.require_hod_break THEN price_ok0 /\ m.broke_hod ELSE price_ok0
        tags == (IF RGe(m.rvol_1m, cfg.rvol_1m_threshold) THEN <<"RVOL_1M_THR">> ELSE <<>>)
                \o (IF RGe(m.rvol_5m, cfg.rvol_5m_threshold) THEN <<"RVOL_5M_THR">> ELSE <<>>)
                \o (IF RGe(m.pct_change_1m, cfg.min_pct_change_1m) THEN <<"PCT_1M_THR">> ELSE <<>>)
                \o (IF RGe(m.pct_change_5m, cfg.min_pct_change_5m) THEN <<"PCT_5M_THR">> ELSE <<>>)
                \o (IF m.broke_hod THEN <<"HOD_BREAK">> ELSE <<>>)
    IN IF RLt(m.vol_1m, R(cfg.min_vol_1m)) THEN <<FALSE, <<>>>>
       ELSE IF RLt(m.rvol_1m, cfg.rvol_1m_threshold) /\ RLt(m.rvol_5m, cfg.rvol_5m_threshold)
            THEN <<FALSE, <<>>>>
       ELSE IF ~price_ok THEN <<FALSE, <<>>>>
       ELSE IF cfg.require_green_candle /\ ~(m.bar.c >= m.bar.o) THEN <<FALSE, <<>>>>
       ELSE <<TRUE, tags>>

\* the rows .filter(symbol=...).order_by("-triggered_at").first() may return:
\* Null without rows, else a row with the latest triggered_at
LastEventChoices(evs, symbol) ==
    LET mine == {e \in evs : e.symbol = symbol}
    IN IF mine = {} THEN {Null}
       ELSE {e \in mine : \A f \in mine : f.triggered_at <= e.triggered_at}

\* (wrong variant) a last event without hod, as the admin's test events are, is
\* passed over as if no event existed
AllowTriggerPastSynthetic(m, cfg, now, last_ev) ==
    LET cutoff == now - cfg.cooldown_minutes
    IN IF last_ev = Null THEN TRUE
       ELSE IF last_ev.hod = Null THEN TRUE
       ELSE IF last_ev.triggered_at < cutoff THEN TRUE
       ELSE IF ~cfg.realert_on_new_hod THEN FALSE
       ELSE RGt(m.hod, last_ev.hod)

\* allow_trigger_with_cooldown, given the row the query returned
AllowTriggerWithCooldown(m, cfg, now, last_ev) ==
    LET cutoff == now - cfg.cooldown_minutes
    IN IF last_ev = Null THEN TRUE
       ELSE IF last_ev.triggered_at < cutoff THEN TRUE
       ELSE IF ~cfg.realert_on_new_hod THEN FALSE
       ELSE RGt(m.hod, IF last_ev.hod = Null THEN R(0) ELSE last_ev.hod)

\* _dedupe_tags: first occurrences, order kept
RECURSIVE DedupeTags(_)
DedupeTags(tags) ==
    IF tags = <<>> THEN <<>>
    ELSE LET init == DedupeTags(SubSeq(tags, 1, Len(tags) - 1))
             t == tags[Len(tags)]
         IN IF t \in Range(init) THEN init ELSE Append(init, t)

\* the config_snapshot dict of run_engine_once
ConfigSnapshot(cfg) ==
    [min_pct_change_1m |-> cfg.min_pct_change_1m, min_pct_change_5m |-> cfg.min_pct_change_5m, require_hod_break |-> cfg.require_hod_break,
     min_vol_1m |-> cfg.min_vol_1m,
     rvol_1m_threshold |-> cfg.rvol_1m_threshold,
     rvol_5m_threshold |-> cfg.rvol_5m_threshold,
     require_green_candle |-> cfg.require_green_candle,
     cooldown_minutes |-> cfg.cooldown_minutes,
     realert_on_new_hod |-> cfg.realert_on_new_hod,
     enabled |-> cfg.enabled,
     timeframe |-> cfg.timeframe,
     rvol_lookback_minutes |-> cfg.rvol_lookback_minutes]

\* the row ScannerTriggerEvent.objects.create(...) of run_engine_once inserts
EngineEvent(id, sym, now, m, decision_tags, cfg) ==
    [hod |-> m.hod, h |-> R(m.bar.h), c |-> R(m.bar.c),
     o |-> R(m.bar.o),
     l |-> R(m.bar.l), v |-> R(m.bar.v), symbol |-> sym, vol_1m |-> m.vol_1m, vol_5m |-> m.vol_5m,
     rvol_1m |-> m.rvol_1m, rvol_5m |-> m.rvol_5m, pct_change_1m |-> m.pct_change_1m,
     pct_change_5m |-> m.pct_change_5m,
     broke_hod |-> m.broke_hod, score |-> m.score,
     reason_tags |-> DedupeTags(decision_tags \o m.reason_tags), avg_vol_1m_lookback |-> m.avg_vol_1m_lookback,
     triggered_at |-> now, id |-> id, last_price |-> R(m.bar.c),
     config_snapshot |-> ConfigSnapshot(cfg)]

\* the row emit_test_event inserts: every unnamed column takes its default
TestEvent(id, sym, now) ==
    [hod |-> Null, h |-> Null, c |-> Null,
     o |-> Null,
     l |-> Null, v |-> Null, symbol |-> sym, vol_1m |-> Null, vol_5m |-> Null,
     rvol_1m |-> Null, rvol_5m |-> Null, pct_change_1m |-> Null,
     pct_change_5m |-> Null, broke_hod |-> FALSE, score |-> R(0),
     reason_tags |-> <<"TEST_EVENT">>, avg_vol_1m_lookback |-> Null,
     triggered_at |-> now, id |-> id, last_price |-> Null,
     config_snapshot |-> [test |-> TRUE]]

\* ---- the HOT5 selection
HotLimit == 5

\* one step of sorted(..., reverse=True): x goes behind every element whose score
\* is at least its own (Python's sort is stable, also when reversed)
RECURSIVE InsertByScore(_, _)
InsertByScore(x, sorted) ==
    IF sorted = <<>> THEN <<x>>
    ELSE IF RGe(Head(sorted).score, x.score)
         THEN <<Head(sorted)>> \o InsertByScore(x, Tail(sorted))
         ELSE <<x>> \o sorted

RECURSIVE SortByScoreDesc(_)
SortByScoreDesc(ms) ==
    IF ms = <<>> THEN <<>>
    ELSE InsertByScore(ms[Len(ms)], SortByScoreDesc(SubSeq(ms, 1, Len(ms) - 1)))

\* _hot_item, reduced to the two fields the selection is about
HotItem(m) == [symbol |-> m.symbol, score |-> m.score]

\* (wrong variant) the first five metrics in universe order, unsorted
Hot5ItemsUnsorted(all_metrics) ==
    LET top == SubSeq(all_metrics, 1, Min2(Len(all_metrics), HotLimit))
    IN [i \in 1..Len(top) |-> HotItem(top[i])]

\* top = sorted(all_metrics, key=score, reverse=True)[:5]; items = [_hot_item(m) ...]
Hot5Items(all_metrics) ==
    LET ranked == SortByScoreDesc(all_metrics)
        top == SubSeq(ranked, 1, Min2(Len(ranked), HotLimit))
    IN [i \in 1..Len(top) |-> HotItem(top[i])]

\* publish_trigger_event_to_users / publish_hotlist_to_users seen from the caller:
\* one group_send per user id, whatever each of them does
\* (`id` is the event of a trigger payload, `items` the rows of a hot5 payload)
GroupSends(origin, kind, user_ids, id, items) ==
    {[id |-> id, origin |-> origin, kind |-> kind, items |-> items, user |-> u] :
        u \in user_ids}

TickIds == {1, 2}
\* who creates events: the tick workers, and 0 for the admin's emit_test_event
Creators == TickIds \cup {0}
TickIdle == [pc |-> "idle"]

\* scanner_tick: the task's own look at cfg.enabled before run_engine_once
TickTaskStart(w) ==
    /\ tick[w].pc = "idle"
    /\ Cardinality(events) < MaxEvents
    /\ tick' = IF config.enabled THEN [tick EXCEPT ![w] = [pc |-> "engine"]] ELSE tick
    /\ tickLog' = IF config.enabled THEN tickLog
                  ELSE tickLog \cup {[w |-> w, what |-> "disabled", at |-> "scanner_tick"]}
    /\ UNCHANGED <<redisBars, redisHod, universe, clock, ing, cmd, pushed, purged,
                   config, events, nextEventId, pushQueue, pushVars, apiVars,
                   rebuildLog, dayq, req, wsSent, hotq, conns, groups, hb, histVars>>

\* (wrong variant) run_engine_once without its "if not cfg.enabled: return 0"
TickEngineStartIgnoresEnabled(w) ==
    /\ tick[w].pc = "engine"
    /\ LET now == clock
           cfg == config
           symbols == SortedSyms(universe)
           day == TradingDayId(now)
       IN tick' = IF symbols = <<>>
                  THEN [tick EXCEPT ![w] = TickIdle]
                  ELSE [tick EXCEPT ![w] =
                           [day |-> day, pc |-> "hod", cfg |-> cfg, tags |-> <<>>,
                            now |-> now,
                            all_metrics |-> <<>>,
                            todo |-> symbols,
                            barsMap |-> [s \in Range(symbols) |->
                                FetchBars(redisBars, s, cfg.rvol_lookback_minutes, day)],
                            follower_ids |->
                                {u \in Users : userSettings[u].follow_alerts},
                            live_feed_user_ids |->
                                {u \in Users : userSettings[u].live_feed_enabled}, hodv |-> NoHod, gate |-> Null]]
    /\ tickLog' = tickLog
    /\ UNCHANGED <<redisBars, redisHod, universe, clock, ing, cmd, pushed, purged,
                   config, events, nextEventId, pushQueue, pushVars, apiVars,
                   rebuildLog, dayq, req, wsSent, hotq, conns, groups, hb, histVars>>

\* run_engine_once up to the symbol loop: now, cfg, the universe, fetch_bars
TickEngineStart(w) ==
    /\ tick[w].pc = "engine"
    /\ LET now == clock
           cfg == config
           symbols == SortedSyms(universe)
           day == TradingDayId(now)
       IN tick' = IF ~cfg.enabled \/ symbols = <<>>
                  THEN [tick EXCEPT ![w] = TickIdle]
                  ELSE [tick EXCEPT ![w] =
                           [day |-> day, pc |-> "hod", cfg |-> cfg, tags |-> <<>>,
                            now |-> now,
                            all_metrics |-> <<>>,
                            todo |-> symbols,
                            barsMap |-> [s \in Range(symbols) |->
                                FetchBars(redisBars, s, cfg.rvol_lookback_minutes, day)],
                            follower_ids |->
                                {u \in Users : userSettings[u].follow_alerts},
                            live_feed_user_ids |->
                                {u \in Users : userSettings[u].live_feed_enabled}, hodv |-> NoHod, gate |-> Null]]
    /\ tickLog' = IF config.enabled THEN tickLog
                  ELSE tickLog \cup {[w |-> w, what |-> "disabled", at |-> "run_engine_once"]}
    /\ UNCHANGED <<redisBars, redisHod, universe, clock, ing, cmd, pushed, purged,
                   config, events, nextEventId, pushQueue, pushVars, apiVars,
                   rebuildLog, dayq, req, wsSent, hotq, conns, groups, hb, histVars>>

\* "continue": on to the next symbol of the loop
NextSymbol(t) == [t EXCEPT !.todo = Tail(@), !.pc = "hod", !.hodv = NoHod, !.tags = <<>>]

\* the symbol loop up to compute_metrics: the 6-bar check, get_hod_state, and the
\* reads of rebuild_hod_state_from_bars when the state is missing or stale
TickResolveHod(w) ==
    /\ tick[w].pc = "hod"
    /\ LET t == tick[w]
       IN IF t.todo = <<>>
          THEN tick' = [tick EXCEPT ![w] = [t EXCEPT !.pc = "hot5"]]
          ELSE LET sym == Head(t.todo)
                   bars == t.barsMap[sym]
                   st == GetHodState(redisHod, sym, t.day)
                   needs_rebuild == \/ st.hod = Null
                                    \/ st.ts = Null
                                    \/ bars[Len(bars)].ts > st.ts[1]
                   rebuilt == RebuildHodValue(FetchAllBars(redisBars, sym, t.day))
               IN tick' = IF Len(bars) < MinBarsForMetrics
                          THEN [tick EXCEPT ![w] = NextSymbol(t)]
                          ELSE IF ~needs_rebuild
                               THEN [tick EXCEPT ![w] = [t EXCEPT !.pc = "gate", !.hodv = st]]
                               ELSE IF rebuilt.hod = Null
                                    THEN [tick EXCEPT ![w] = NextSymbol(t)]
                                    ELSE [tick EXCEPT ![w] =
                                             [t EXCEPT !.pc = "rebuild_write", !.hodv = rebuilt]]
    /\ UNCHANGED <<redisBars, redisHod, universe, clock, ing, cmd, pushed, purged,
                   config, events, nextEventId, pushQueue, pushVars, apiVars, auxVars>>

\* rebuild_hod_state_from_bars: r.set(hod_key, payload)
TickRebuildWrite(w) ==
    /\ tick[w].pc = "rebuild_write"
    /\ LET t == tick[w]
       IN /\ redisHod' = [redisHod EXCEPT ![<<t.day, Head(t.todo)>>] = t.hodv]
          /\ tick' = [tick EXCEPT ![w] = [t EXCEPT !.pc = "gate"]]
    /\ UNCHANGED <<redisBars, universe, clock, ing, cmd, pushed, purged,
                   config, events, nextEventId, pushQueue, pushVars, apiVars, auxVars>>

TickMetrics(t) ==
    ComputeMetrics(Head(t.todo), t.barsMap[Head(t.todo)], t.cfg.rvol_lookback_minutes,
                   t.hodv.hod[1], t.hodv.prev_hod)

\* compute_metrics, all_metrics.append(m), allow_trigger_with_cooldown (its
\* query), should_trigger
TickGate(w) ==
    /\ tick[w].pc = "gate"
    /\ \E last_ev \in LastEventChoices(events, Head(tick[w].todo)) :
          LET t == tick[w]
              m == TickMetrics(t)
              allowed == AllowTriggerWithCooldown(m, t.cfg, t.now, last_ev)
              decision == ShouldTrigger(m, t.cfg)
              gate == [symbol |-> m.symbol,
                       last_ev |-> IF last_ev = Null THEN Null
                                   ELSE [hod |-> last_ev.hod,
                                         triggered_at |-> last_ev.triggered_at],
                       allowed |-> allowed,
                       metrics |-> m]
              seen == [t EXCEPT !.all_metrics = Append(@, m)]
          IN tick' = IF allowed /\ decision[1]
                     THEN [tick EXCEPT ![w] =
                              [seen EXCEPT !.pc = "create", !.gate = gate, !.tags = decision[2]]]
                     ELSE [tick EXCEPT ![w] = [NextSymbol(seen) EXCEPT !.gate = gate]]
    /\ UNCHANGED <<redisBars, redisHod, universe, clock, ing, cmd, pushed, purged,
                   config, events, nextEventId, pushQueue, pushVars, apiVars, auxVars>>

\* ScannerTriggerEvent.objects.create(...), publish_trigger_event_to_users(follower_ids,
\* payload), then scanner_notify_pushover_trigger.delay(ev.id)
TickCreate(w) ==
    /\ tick[w].pc = "create"
    /\ Cardinality(events) < MaxEvents
    /\ LET t == tick[w]
           ev == EngineEvent(nextEventId, Head(t.todo), t.now, TickMetrics(t), t.tags, t.cfg)
       IN /\ events' = events \cup {ev}
          /\ nextEventId' = nextEventId + 1
          /\ wsSent' = wsSent \cup GroupSends("tick", "trigger", t.follower_ids, ev.id, <<>>)
          /\ pushQueue' = pushQueue \cup {ev.id}
          /\ tick' = [tick EXCEPT ![w] = NextSymbol(t)]
          /\ fired' = fired \cup {<<ev.id, ev.symbol, TickMetrics(t).bar.ts>>}
    /\ UNCHANGED <<redisBars, redisHod, universe, clock, ing, cmd, pushed, purged, config,
                   pushVars, apiVars, rebuildLog, dayq, req, hotq, conns, groups, hb, tickLog,
                   barLog, pruneArg, creating, orderLog>>

\* ---- the same three calls one at a time
\* ev = ScannerTriggerEvent.objects.create(...); created += 1
TickPersist(w) ==
    /\ tick[w].pc = "create"
    /\ Cardinality(events) < MaxEvents
    /\ LET t == tick[w]
           ev == EngineEvent(nextEventId, Head(t.todo), t.now, TickMetrics(t), t.tags, t.cfg)
       IN /\ events' = events \cup {ev}
          /\ nextEventId' = nextEventId + 1
          /\ fired' = fired \cup {<<ev.id, ev.symbol, TickMetrics(t).bar.ts>>}
          /\ creating' = [creating EXCEPT ![w] = [pc |-> "publish", id |-> ev.id]]
          /\ orderLog' = Append(orderLog, [step |-> "create", id |-> ev.id, ok |-> TRUE])
          /\ tick' = [tick EXCEPT ![w] = [t EXCEPT !.pc = "publish"]]
    /\ UNCHANGED <<redisBars, redisHod, universe, clock, ing, cmd, pushed, purged, config,
                   pushQueue, pushVars, apiVars,
                   rebuildLog, dayq, req, wsSent, hotq, conns, groups, hb, tickLog,
                   barLog, pruneArg>>

\* (wrong variant) no try/except around the publish: a failure ends the run
TickPublishUnguarded(w, delivered) ==
    /\ tick[w].pc = "publish"
    /\ delivered \subseteq tick[w].follower_ids
    /\ wsSent' = wsSent \cup GroupSends("tick", "trigger", delivered, creating[w].id, <<>>)
    /\ orderLog' = Append(orderLog, [step |-> "publish", id |-> creating[w].id,
                                     ok |-> delivered = tick[w].follower_ids])
    /\ IF delivered = tick[w].follower_ids
       THEN /\ tick' = [tick EXCEPT ![w] = [@ EXCEPT !.pc = "enqueue"]]
            /\ creating' = [creating EXCEPT ![w] = [@ EXCEPT !.pc = "enqueue"]]
       ELSE /\ tick' = [tick EXCEPT ![w] = TickIdle]
            /\ creating' = [creating EXCEPT ![w] = Null]
    /\ UNCHANGED <<redisBars, redisHod, universe, clock, ing, cmd, pushed, purged,
                   config, events, nextEventId, pushQueue, pushVars, apiVars,
                   rebuildLog, dayq, req, hotq, conns, groups, hb, tickLog,
                   barLog, pruneArg, fired>>

\* try: payload = ...data; publish_trigger_event_to_users(follower_ids, payload)
\* except Exception: pass -- `delivered` are the users whose group_send went through
TickPublish(w, delivered) ==
    /\ tick[w].pc = "publish"
    /\ delivered \subseteq tick[w].follower_ids
    /\ wsSent' = wsSent \cup GroupSends("tick", "trigger", delivered, creating[w].id, <<>>)
    /\ orderLog' = Append(orderLog, [step |-> "publish", id |-> creating[w].id,
                                     ok |-> delivered = tick[w].follower_ids])
    /\ tick' = [tick EXCEPT ![w] = [@ EXCEPT !.pc = "enqueue"]]
    /\ creating' = [creating EXCEPT ![w] = [@ EXCEPT !.pc = "enqueue"]]
    /\ UNCHANGED <<redisBars, redisHod, universe, clock, ing, cmd, pushed, purged,
                   config, events, nextEventId, pushQueue, pushVars, apiVars,
                   rebuildLog, dayq, req, hotq, conns, groups, hb, tickLog,
                   barLog, pruneArg, fired>>

\* try: scanner_notify_pushover_trigger.delay(ev.id) except Exception: pass
\* ok = FALSE: the broker refuses the task
TickEnqueue(w, ok) ==
    /\ tick[w].pc = "enqueue"
    /\ pushQueue' = IF ok THEN pushQueue \cup {creating[w].id} ELSE pushQueue
    /\ orderLog' = Append(orderLog, [step |-> "delay", id |-> creating[w].id, ok |-> ok])
    /\ tick' = [tick EXCEPT ![w] = NextSymbol(tick[w])]
    /\ creating' = [creating EXCEPT ![w] = Null]
    /\ UNCHANGED <<redisBars, redisHod, universe, clock, ing, cmd, pushed, purged,
                   config, events, nextEventId, pushVars, apiVars,
                   rebuildLog, dayq, req, wsSent, hotq, conns, groups, hb, tickLog,
                   barLog, pruneArg, fired>>

\* (wrong variant) the HOT5 broadcast addressed to the followers
TickFinishToFollowers(w) ==
    /\ tick[w].pc = "hot5"
    /\ wsSent' = IF tick[w].all_metrics # <<>> /\ tick[w].follower_ids # {}
                 THEN wsSent \cup GroupSends("tick", "hot5", tick[w].follower_ids,
                                            0, Hot5Items(tick[w].all_metrics))
                 ELSE wsSent
    /\ tick' = [tick EXCEPT ![w] = TickIdle]
    /\ UNCHANGED <<redisBars, redisHod, universe, clock, ing, cmd, pushed, purged,
                   config, events, nextEventId, pushQueue, pushVars, apiVars,
                   rebuildLog, dayq, req, hotq, conns, groups, hb, tickLog, histVars>>

\* "if all_metrics and live_feed_user_ids": the HOT5 broadcast; "return created"
TickFinish(w) ==
    /\ tick[w].pc = "hot5"
    /\ wsSent' = IF tick[w].all_metrics # <<>> /\ tick[w].live_feed_user_ids # {}
                 THEN wsSent \cup GroupSends("tick", "hot5", tick[w].live_feed_user_ids,
                                            0, Hot5Items(tick[w].all_metrics))
                 ELSE wsSent
    /\ tick' = [tick EXCEPT ![w] = TickIdle]
    /\ UNCHANGED <<redisBars, redisHod, universe, clock, ing, cmd, pushed, purged,
                   config, events, nextEventId, pushQueue, pushVars, apiVars,
                   rebuildLog, dayq, req, hotq, conns, groups, hb, tickLog, histVars>>

\* ScannerAdminViewSet.emit_test_event once _require_admin let the request
\* through: the event row, the broadcast to the followers, the push task
EmitTestEventHandler(sym) ==
    /\ Cardinality(events) < MaxEvents
    /\ Cardinality({e \in events : "test" \in DOMAIN e.config_snapshot}) < MaxTestEvents
    /\ events' = events \cup {TestEvent(nextEventId, sym, clock)}
    /\ nextEventId' = nextEventId + 1
    /\ wsSent' = wsSent \cup GroupSends("emit_test_event", "trigger",
                                        {u \in Users : userSettings[u].follow_alerts},
                                        nextEventId, <<>>)
    /\ pushQueue' = pushQueue \cup {nextEventId}
    /\ UNCHANGED <<redisBars, redisHod, universe, clock, ing, cmd, pushed, purged,
                   config, tick, pushVars, apiVars,
                   rebuildLog, dayq, hotq, conns, groups, hb, tickLog, histVars>>

\* emit_test_event one call at a time: ev = ScannerTriggerEvent.objects.create(...)
EmitPersist(sym) ==
    /\ creating[0] = Null
    /\ Cardinality(events) < MaxEvents
    /\ Cardinality({e \in events : "test" \in DOMAIN e.config_snapshot}) < MaxTestEvents
    /\ events' = events \cup {TestEvent(nextEventId, sym, clock)}
    /\ nextEventId' = nextEventId + 1
    /\ creating' = [creating EXCEPT ![0] = [pc |-> "publish", id |-> nextEventId]]
    /\ orderLog' = Append(orderLog, [step |-> "create", id |-> nextEventId, ok |-> TRUE])
    /\ UNCHANGED <<redisBars, redisHod, universe, clock, ing, cmd, pushed, purged,
                   config, tick, pushQueue, pushVars, apiVars,
                   rebuildLog, dayq, req, wsSent, hotq, conns, groups, hb, tickLog,
                   barLog, pruneArg, fired>>

\* follower_ids = ...filter(follow_alerts=True); publish_trigger_event_to_users(...)
EmitPublish(delivered) ==
    /\ creating[0] # Null
    /\ creating[0].pc = "publish"
    /\ LET follower_ids == {u \in Users : userSettings[u].follow_alerts}
       IN /\ delivered \subseteq follower_ids
          /\ wsSent' = wsSent \cup GroupSends("emit_test_event", "trigger", delivered,
                                              creating[0].id, <<>>)
          /\ orderLog' = Append(orderLog, [step |-> "publish", id |-> creating[0].id,
                                           ok |-> delivered = follower_ids])
    /\ creating' = [creating EXCEPT ![0] = [@ EXCEPT !.pc = "enqueue"]]
    /\ UNCHANGED <<redisBars, redisHod, universe, clock, ing, cmd, pushed, purged,
                   engineVars, pushVars, apiVars,
                   rebuildLog, dayq, req, hotq, conns, groups, hb, tickLog,
                   barLog, pruneArg, fired>>

\* try: scanner_notify_pushover_trigger.delay(ev.id) except Exception: pass;
\* return Response(payload, status=201)
EmitEnqueue(ok) ==
    /\ creating[0] # Null
    /\ creating[0].pc = "enqueue"
    /\ pushQueue' = IF ok THEN pushQueue \cup {creating[0].id} ELSE pushQueue
    /\ orderLog' = Append(orderLog, [step |-> "delay", id |-> creating[0].id, ok |-> ok])
    /\ creating' = [creating EXCEPT ![0] = Null]
    /\ UNCHANGED <<redisBars, redisHod, universe, clock, ing, cmd, pushed, purged,
                   config, events, nextEventId, tick, pushVars, apiVars,
                   rebuildLog, dayq, req, wsSent, hotq, conns, groups, hb, tickLog,
                   barLog, pruneArg, fired>>

\* ScannerAdminViewSet.emit_test_event by an admin, its response left aside
EmitTestEvent(sym) == EmitTestEventHandler(sym) /\ UNCHANGED req

\* PATCH /scanner/config/ by an admin
ConfigPatch(cfg) ==
    /\ config # cfg
    /\ config' = cfg
    /\ UNCHANGED <<redisBars, redisHod, universe, clock, ing, cmd, pushed, purged,
                   events, nextEventId, tick, pushQueue, pushVars, apiVars, auxVars>>

\* ------------------------------------------------------------ push worker
EventIds == 1..MaxEvents
PushWorkerIds == {1, 2}
PushIdle == [pc |-> "idle"]

\* timeout=6 * 60 * 60 seconds of cache.add, in minutes
PushTtlMinutes == 6 * 60

\* the UserScannerSettings field defaults
DefaultUserSettings ==
    [follow_alerts |-> TRUE, live_feed_enabled |-> TRUE, cleared_until |-> Null,
     pushover_enabled |-> FALSE, pushover_user_key |-> "",
     notify_min_score |-> Null, notify_only_hod_break |-> FALSE]

\* _is_hod_break: broke_hod, or the HOD_BREAK reason tag
IsHodBreak(ev) == ev.broke_hod \/ "HOD_BREAK" \in Range(ev.reason_tags)

\* (wrong variant) the queryset without its cleared_until filter
PushAudienceIgnoresCursor(settings, trig_ts) ==
    {u \in Users :
        /\ settings[u].follow_alerts
        /\ settings[u].pushover_enabled
        /\ settings[u].pushover_user_key # ""}

\* the queryset of scanner_notify_pushover_trigger, as the user ids it selects
PushAudience(settings, trig_ts) ==
    {u \in Users :
        /\ settings[u].follow_alerts
        /\ settings[u].pushover_enabled
        /\ settings[u].pushover_user_key # ""
        /\ (settings[u].cleared_until = Null \/ settings[u].cleared_until[1] < trig_ts)}

\* the per-user gating of the loop body: TRUE when the row is skipped
PushGatedOut(s, ev) ==
    \/ s.pushover_user_key = ""
    \/ s.notify_only_hod_break /\ ~IsHodBreak(ev)
    \/ s.notify_min_score # Null /\ (ev.score = Null \/ RLt(ev.score, s.notify_min_score[1]))

\* a key of the cache is live until its timeout has run out
CacheLive(c, key, now) == c[key] # Null /\ now < c[key][1]

\* (wrong variant) cache.set for cache.add: the key is written whether or not it is live
CacheAddOverwrites(c, key, now, timeout) ==
    <<TRUE, [c EXCEPT ![key] = <<now + timeout>>]>>

\* cache.add(key, "1", timeout): SET NX EX of the Redis cache backend; <<added, cache>>
CacheAdd(c, key, now, timeout) ==
    IF CacheLive(c, key, now)
    THEN <<FALSE, c>>
    ELSE <<TRUE, [c EXCEPT ![key] = <<now + timeout>>]>>

\* the task up to the loop: app token, the event row, the queryset
PushStart(w, trigger_id, maxRuns) ==
    /\ pw[w].pc = "idle"
    /\ trigger_id \in pushQueue
    /\ pushRuns < maxRuns
    /\ pushRuns' = pushRuns + 1
    /\ LET found == {e \in events : e.id = trigger_id}
       IN pw' = IF ~appToken \/ found = {}
                THEN pw
                ELSE LET ev == CHOOSE e \in found : TRUE
                     IN [pw EXCEPT ![w] =
                            [cur |-> Null, pc |-> "loop", ev |-> ev,
                             trigger_id |-> trigger_id,
                             rows |-> [u \in PushAudience(userSettings, ev.triggered_at)
                                          |-> userSettings[u]], addedAt |-> Null, refused |-> {},
                             gated |-> {}, sent |-> 0]]
    /\ UNCHANGED <<redisBars, redisHod, universe, clock, ing, cmd, pushed, purged,
                   engineVars, userSettings, pushCache, attempts, appToken, apiVars, auxVars>>

\* (wrong variant) cache.add before the per-user gating
PushNextUserAddsFirst(w, u) ==
    /\ pw[w].pc = "loop"
    /\ u \in DOMAIN pw[w].rows
    /\ LET t == pw[w]
           s == t.rows[u]
           rest == [x \in (DOMAIN t.rows) \ {u} |-> t.rows[x]]
           key == <<t.trigger_id, u>>
           added == CacheAdd(pushCache, key, clock, PushTtlMinutes)
       IN /\ pushCache' = added[2]
          /\ pw' = IF ~added[1]
                   THEN [pw EXCEPT ![w] = [t EXCEPT !.rows = rest,
                                                    !.refused = @ \cup {u}]]
                   ELSE IF PushGatedOut(s, t.ev)
                        THEN [pw EXCEPT ![w] = [t EXCEPT !.rows = rest,
                                                         !.gated = @ \cup {u}]]
                        ELSE [pw EXCEPT ![w] = [t EXCEPT !.pc = "send",
                                                         !.cur = <<u>>, !.addedAt = <<clock>>]]
    /\ UNCHANGED <<redisBars, redisHod, universe, clock, ing, cmd, pushed, purged,
                   engineVars, userSettings, attempts, appToken, pushRuns, apiVars, auxVars>>

\* one pass of "for s in qs" up to the send: gating, then cache.add; the row
\* stays in `rows` while it is the loop variable s of the send
PushNextUser(w, u) ==
    /\ pw[w].pc = "loop"
    /\ u \in DOMAIN pw[w].rows
    /\ LET t == pw[w]
           s == t.rows[u]
           rest == [x \in (DOMAIN t.rows) \ {u} |-> t.rows[x]]
           key == <<t.trigger_id, u>>
           added == CacheAdd(pushCache, key, clock, PushTtlMinutes)
       IN IF PushGatedOut(s, t.ev)
          THEN /\ pw' = [pw EXCEPT ![w] = [t EXCEPT !.rows = rest,
                                                    !.gated = @ \cup {u}]]
               /\ pushCache' = pushCache
          ELSE /\ pushCache' = added[2]
               /\ pw' = IF added[1]
                        THEN [pw EXCEPT ![w] = [t EXCEPT !.pc = "send",
                                                         !.cur = <<u>>, !.addedAt = <<clock>>]]
                        ELSE [pw EXCEPT ![w] = [t EXCEPT !.rows = rest,
                                                         !.refused = @ \cup {u}]]
    /\ UNCHANGED <<redisBars, redisHod, universe, clock, ing, cmd, pushed, purged,
                   engineVars, userSettings, attempts, appToken, pushRuns, apiVars, auxVars>>

\* (wrong variant) no try/except around _pushover_send: a failed send leaves the task
PushSendUnguarded(w, ok) ==
    /\ pw[w].pc = "send"
    /\ LET t == pw[w]
       IN /\ attempts' = Append(attempts,
                [addedAt |-> t.addedAt[1], event_id |-> t.trigger_id,
                 user_id |-> t.cur[1]])
          /\ pw' = IF ok
                   THEN [pw EXCEPT ![w] =
                           [t EXCEPT !.pc = "loop", !.cur = Null, !.addedAt = Null,
                                     !.sent = @ + 1,
                                     !.rows = [x \in (DOMAIN t.rows) \ {t.cur[1]} |-> t.rows[x]]]]
                   ELSE [pw EXCEPT ![w] = [t EXCEPT !.pc = "raised"]]
    /\ UNCHANGED <<redisBars, redisHod, universe, clock, ing, cmd, pushed, purged,
                   engineVars, userSettings, pushCache, appToken, pushRuns, apiVars, auxVars>>

\* _pushover_send: the POST, then "sent += 1"; ok = FALSE: it raises (non-200,
\* timeout), which is logged, and the loop goes on
PushSend(w, ok) ==
    /\ pw[w].pc = "send"
    /\ LET t == pw[w]
       IN /\ attempts' = Append(attempts,
                [addedAt |-> t.addedAt[1], event_id |-> t.trigger_id,
                 user_id |-> t.cur[1]])
          /\ pw' = [pw EXCEPT ![w] =
                       [t EXCEPT !.pc = "loop", !.cur = Null, !.addedAt = Null,
                                 !.sent = IF ok THEN @ + 1 ELSE @,
                                 !.rows = [x \in (DOMAIN t.rows) \ {t.cur[1]} |-> t.rows[x]]]]
    /\ UNCHANGED <<redisBars, redisHod, universe, clock, ing, cmd, pushed, purged,
                   engineVars, userSettings, pushCache, appToken, pushRuns, apiVars, auxVars>>

\* the queryset is exhausted: logger.info, return
PushDone(w) ==
    /\ pw[w].pc = "loop"
    /\ DOMAIN pw[w].rows = {}
    /\ pw' = [pw EXCEPT ![w] = PushIdle]
    /\ UNCHANGED <<redisBars, redisHod, universe, clock, ing, cmd, pushed, purged,
                   engineVars, userSettings, pushCache, attempts, appToken, pushRuns, apiVars, auxVars>>

\* retention_days as the task receives it: an integer, None, or text
IntArg(n) == [n |-> n, kind |-> "int", text |-> <<>>]
NoneArg == [n |-> 0, kind |-> "none", text |-> <<>>]
TextArg(t) == [n |-> 0, kind |-> "text", text |-> t]

DecimalDigits == <<"0", "1", "2", "3", "4", "5", "6", "7", "8", "9">>
DigitValue(ch) == CHOOSE i \in 0..9 : DecimalDigits[i + 1] = ch

\* the value of a run of decimal digits, read left to right from acc
RECURSIVE DigitsValue(_, _)
DigitsValue(chars, acc) ==
    IF chars = <<>> THEN acc
    ELSE DigitsValue(Tail(chars), 10 * acc + DigitValue(Head(chars)))

\* int(text): an optional sign and one or more digits; <<>> stands for ValueError
IntOfText(chars) ==
    LET signed == chars # <<>> /\ Head(chars) \in {"-", "+"}
        digits == IF signed THEN Tail(chars) ELSE chars
        isNumber == digits # <<>> /\
                    \A i \in 1..Len(digits) : \E d \in 1..10 : DecimalDigits[d] = digits[i]
    IN IF ~isNumber THEN Null
       ELSE IF signed /\ Head(chars) = "-" THEN <<0 - DigitsValue(digits, 0)>>
       ELSE <<DigitsValue(digits, 0)>>

DefaultRetentionDays == 30

\* (wrong variant) the default stands in for None only, not for every falsy value
RetentionDaysNoneOnly(arg) ==
    LET parsed == IF arg.kind = "none" THEN <<DefaultRetentionDays>>
                  ELSE IF arg.kind = "int" THEN <<arg.n>>
                  ELSE IntOfText(arg.text)
        days == IF parsed = Null THEN DefaultRetentionDays ELSE parsed[1]
    IN IF days < 1 THEN 1 ELSE days

\* days = int(retention_days or 30), 30 on an exception, then raised to 1
RetentionDays(arg) ==
    LET falsy == \/ arg.kind = "none"
                 \/ arg.kind = "int" /\ arg.n = 0
                 \/ arg.kind = "text" /\ arg.text = <<>>
        parsed == IF falsy THEN <<DefaultRetentionDays>>
                  ELSE IF arg.kind = "int" THEN <<arg.n>>
                  ELSE IntOfText(arg.text)
        days == IF parsed = Null THEN DefaultRetentionDays ELSE parsed[1]
    IN IF days < 1 THEN 1 ELSE days

\* scanner_prune_trigger_events(retention_days): rows older than the cutoff go
PruneEvents(retention_days) ==
    /\ LET days == RetentionDays(retention_days)
           cutoff == clock - days * MinutesPerDay
       IN /\ \E e \in events : e.triggered_at < cutoff
          /\ events' = {e \in events : ~(e.triggered_at < cutoff)}
    /\ pruneArg' = retention_days
    /\ UNCHANGED <<redisBars, redisHod, universe, clock, ing, cmd, pushed, purged,
                   config, nextEventId, tick, pushQueue, pushVars, apiVars,
                   rebuildLog, dayq, req, wsSent, hotq, conns, groups, hb, tickLog,
                   barLog, fired, creating, orderLog>>

\* PATCH of the caller's own UserScannerSettings row
SettingsPatch(u, s) ==
    /\ userSettings[u] # s
    /\ userSettings' = [userSettings EXCEPT ![u] = s]
    /\ UNCHANGED <<redisBars, redisHod, universe, clock, ing, cmd, pushed, purged,
                   engineVars, pushCache, attempts, pw, appToken, pushRuns, apiVars, auxVars>>

\* time passes: d minutes at once
AdvanceClockBy(d, limit) ==
    /\ clock + d <= limit
    /\ clock' = clock + d
    /\ UNCHANGED <<redisBars, redisHod, universe, ing, cmd, pushed, purged,
                   engineVars, pushVars, apiVars, auxVars>>

\* ------------------------------------------------------------ trigger feed
FeedIdle == [pc |-> "idle", resp |-> Null]

\* (wrong variant) triggered_at__gte for triggered_at__gt
VisibleEventsFromCursor(evs, cleared_until) ==
    IF cleared_until # Null
    THEN {e \in evs : e.triggered_at >= cleared_until[1]}
    ELSE evs

\* get_queryset: "if settings_obj.cleared_until: qs.filter(triggered_at__gt=...)"
VisibleEvents(evs, cleared_until) ==
    IF cleared_until # Null
    THEN {e \in evs : e.triggered_at > cleared_until[1]}
    ELSE evs

\* get_queryset: "if symbol: qs.filter(symbol__iexact=symbol)"
SymbolFilter(evs, symbol) ==
    IF symbol # Null THEN {e \in evs : e.symbol = symbol[1]} ELSE evs

\* GET /triggers/ (kind "list") or GET /triggers/{pk}/ (kind "detail") by user u:
\* get_queryset reads the user's settings row and builds the lazy queryset
FeedRequest(u, kind, pk, symbol) ==
    /\ feed[u].pc = "idle"
    /\ feed' = [feed EXCEPT ![u] = [pc |-> "query", symbol |-> symbol, kind |-> kind,
                                     resp |-> Null,
                                     pk |-> pk,
                                     cursor |-> userSettings[u].cleared_until]]
    /\ UNCHANGED <<redisBars, redisHod, universe, clock, ing, cmd, pushed, purged,
                   engineVars, pushVars, fan, auxVars>>

\* the queryset is evaluated: the list, or get_object (404 when the pk is not in
\* it), is serialized into the response; `total` is the table at that moment
FeedRespond(u) ==
    /\ feed[u].pc = "query"
    /\ LET r == feed[u]
           qs == SymbolFilter(VisibleEvents(events, r.cursor), r.symbol)
           items == IF r.kind = "list" THEN qs ELSE {e \in qs : e.id = r.pk}
       IN feed' = [feed EXCEPT ![u] = [r EXCEPT !.pc = "idle",
                       !.resp = [items |-> {e.id : e \in items},
                                 total |-> {e.id : e \in events}]]]
    /\ UNCHANGED <<redisBars, redisHod, universe, clock, ing, cmd, pushed, purged,
                   engineVars, pushVars, fan, auxVars>>

\* ScannerTriggerEventViewSet.clear for request.user = u: the user's own row
\* gets cleared_until = timezone.now() and is saved
FeedClearHandler(u) ==
    /\ userSettings[u].cleared_until # <<clock>>
    /\ userSettings' = [userSettings EXCEPT ![u].cleared_until = <<clock>>]
    /\ UNCHANGED <<redisBars, redisHod, universe, clock, ing, cmd, pushed, purged,
                   engineVars, pushCache, attempts, pw, appToken, pushRuns, apiVars,
                   rebuildLog, dayq, wsSent, hotq, conns, groups, hb, tickLog, histVars>>

\* POST /triggers/clear/ by user u, its response left aside
FeedClear(u) == FeedClearHandler(u) /\ UNCHANGED req

\* ------------------------------------------------------- websocket fan-out
FanIdle == [pc |-> "idle"]

\* the lists a caller can hand over: every order of a set of user ids
RECURSIVE Orderings(_)
Orderings(S) ==
    IF S = {} THEN {<<>>}
    ELSE UNION {{<<u>> \o rest : rest \in Orderings(S \ {u})} : u \in S}

\* follower_ids of run_engine_once / emit_test_event (the "trigger" payload) and
\* live_feed_user_ids of run_engine_once (the "hot5" payload), in the order the
\* database returns them
FanAudiences(kind) ==
    IF kind = "trigger"
    THEN Orderings({u \in Users : userSettings[u].follow_alerts})
    ELSE Orderings({u \in Users : userSettings[u].live_feed_enabled})

\* publish_trigger_event_to_users(user_ids, payload) or
\* publish_hotlist_to_users(user_ids, items) is called: n = 0
FanStart(kind, user_ids) ==
    /\ fan.pc \in {"idle", "returned"}
    /\ fan' = [n |-> 0, pc |-> "loop", kind |-> kind, user_ids |-> user_ids,
               todo |-> user_ids, delivered |-> {}, failed |-> {}]
    /\ UNCHANGED <<redisBars, redisHod, universe, clock, ing, cmd, pushed, purged,
                   engineVars, pushVars, feed, auxVars>>

\* (wrong variant) no try/except around the publish: the exception leaves the loop
FanPublishUnguarded(ok) ==
    /\ fan.pc = "loop"
    /\ fan.todo # <<>>
    /\ LET uid == Head(fan.todo)
       IN fan' = IF ok
                 THEN [fan EXCEPT !.todo = Tail(@), !.n = @ + 1,
                                  !.delivered = @ \cup {uid}]
                 ELSE [fan EXCEPT !.pc = "raised", !.failed = @ \cup {uid}]
    /\ UNCHANGED <<redisBars, redisHod, universe, clock, ing, cmd, pushed, purged,
                   engineVars, pushVars, feed, auxVars>>

\* one pass of "for uid in user_ids": publish_*(int(uid), ...) -> group_send to
\* user_{uid}; ok = FALSE: it raises, "except Exception: continue"
FanPublish(ok) ==
    /\ fan.pc = "loop"
    /\ fan.todo # <<>>
    /\ LET uid == Head(fan.todo)
       IN fan' = IF ok
                 THEN [fan EXCEPT !.todo = Tail(@), !.n = @ + 1,
                                  !.delivered = @ \cup {uid}]
                 ELSE [fan EXCEPT !.todo = Tail(@), !.failed = @ \cup {uid}]
    /\ UNCHANGED <<redisBars, redisHod, universe, clock, ing, cmd, pushed, purged,
                   engineVars, pushVars, feed, auxVars>>

\* the loop is over: "return n"
FanReturn ==
    /\ fan.pc = "loop"
    /\ fan.todo = <<>>
    /\ fan' = [fan EXCEPT !.pc = "returned"]
    /\ UNCHANGED <<redisBars, redisHod, universe, clock, ing, cmd, pushed, purged,
                   engineVars, pushVars, feed, auxVars>>

\* ------------------------------------------------------------ HOD rebuild
\* (wrong variant) folds the stored record in, as update_hod_state does
RebuildHodFromStored(sym, day) ==
    LET k == <<day, sym>>
        bars == FetchAllBars(redisBars, sym, day)
        prior == GetHodState(redisHod, sym, day).hod
        fresh == RebuildHodValue(bars)
        ret == IF bars = <<>> \/ prior = Null THEN fresh
               ELSE [fresh EXCEPT !.hod = <<Max2(prior[1], fresh.hod[1])>>, !.prev_hod = prior]
        stored == IF bars = <<>> THEN redisHod[k] ELSE ret
        last == rebuildLog[k]
    IN /\ redisHod' = [redisHod EXCEPT ![k] = stored]
       /\ rebuildLog' = [rebuildLog EXCEPT ![k] =
              [bars |-> redisBars[k], ret |-> ret, stored |-> stored,
               before |-> redisHod[k],
               repeat |-> IF last = Null THEN FALSE ELSE last.bars = redisBars[k],
               prevRet |-> IF last = Null THEN Null ELSE <<last.ret>>,
               prevStored |-> IF last = Null THEN Null ELSE <<last.stored>>]]
       /\ UNCHANGED <<redisBars, universe, clock, ing, cmd, pushed, purged,
                      engineVars, pushVars, apiVars,
                      dayq, req, wsSent, hotq, conns, groups, hb, tickLog, histVars>>

\* one call of rebuild_hod_state_from_bars(symbol, day): fetch_all_bars, the
\* (hod, prev_hod, ts) computed from them, r.set of the record unless there are
\* no bars, and the value returned
RebuildHod(sym, day) ==
    LET k == <<day, sym>>
        bars == FetchAllBars(redisBars, sym, day)
        ret == RebuildHodValue(bars)
        stored == IF bars = <<>> THEN redisHod[k] ELSE ret
        last == rebuildLog[k]
    IN /\ redisHod' = [redisHod EXCEPT ![k] = stored]
       /\ rebuildLog' = [rebuildLog EXCEPT ![k] =
              [bars |-> redisBars[k], ret |-> ret, stored |-> stored,
               before |-> redisHod[k],
               repeat |-> IF last = Null THEN FALSE ELSE last.bars = redisBars[k],
               prevRet |-> IF last = Null THEN Null ELSE <<last.ret>>,
               prevStored |-> IF last = Null THEN Null ELSE <<last.stored>>]]
       /\ UNCHANGED <<redisBars, universe, clock, ing, cmd, pushed, purged,
                      engineVars, pushVars, apiVars,
                      dayq, req, wsSent, hotq, conns, groups, hb, tickLog, histVars>>

\* ------------------------------------------------------- websocket consumer
\* channel names of the connections (one consumer instance per connection)
Channels == {"c1", "c2"}

\* scope["user"] as AuthMiddlewareStack leaves it
AnonymousUser == [id |-> Null, is_anonymous |-> TRUE]
LoggedIn(u) == [id |-> <<u>>, is_anonymous |-> FALSE]
ScopeUsers == {AnonymousUser} \cup {LoggedIn(u) : u \in Users}

\* no connection was made on the channel yet
ConnIdle == [user |-> AnonymousUser, state |-> "closed", user_group |-> Null,
             close_code |-> Null, frames |-> {}]

\* TriggerConsumer.connect for a new connection on channel c
WsConnect(c, user) ==
    /\ conns[c].state = "closed"
    /\ IF user.is_anonymous
       THEN /\ conns' = [conns EXCEPT ![c] = [ConnIdle EXCEPT !.user = user,
                                                             !.close_code = <<4401>>]]
            /\ UNCHANGED groups
       ELSE /\ groups' = [groups EXCEPT ![user.id[1]] = @ \cup {c}]
            /\ conns' = [conns EXCEPT ![c] =
                   [user |-> user, state |-> "open", user_group |-> user.id,
                    close_code |-> Null,
                    frames |-> {[user_id |-> user.id[1], type |-> "hello"]}]]
    /\ UNCHANGED <<redisBars, redisHod, universe, clock, ing, cmd, pushed, purged,
                   engineVars, pushVars, apiVars,
                   rebuildLog, dayq, req, wsSent, hotq, hb, tickLog, histVars>>

\* (wrong variant) disconnect that leaves the channel in its group
WsDisconnectKeepsGroup(c) ==
    /\ conns[c].state = "open"
    /\ conns' = [conns EXCEPT ![c].state = "closed"]
    /\ UNCHANGED <<redisBars, redisHod, universe, clock, ing, cmd, pushed, purged,
                   engineVars, pushVars, apiVars,
                   rebuildLog, dayq, req, wsSent, hotq, groups, hb, tickLog, histVars>>

\* TriggerConsumer.disconnect: group_discard when connect had set user_group
WsDisconnect(c) ==
    /\ conns[c].state = "open"
    /\ conns' = [conns EXCEPT ![c].state = "closed"]
    /\ groups' = IF conns[c].user_group # Null
                 THEN [groups EXCEPT ![conns[c].user_group[1]] = @ \ {c}]
                 ELSE groups
    /\ UNCHANGED <<redisBars, redisHod, universe, clock, ing, cmd, pushed, purged,
                   engineVars, pushVars, apiVars,
                   rebuildLog, dayq, req, wsSent, hotq, hb, tickLog, histVars>>

\* _send_to_user_group(user_id, payload): group_send to user_{id}; every
\* consumer of the group runs trigger_event and sends the payload to its client
WsGroupSend(user_id, kind) ==
    /\ conns' = [c \in Channels |->
                    IF c \in groups[user_id] /\ conns[c].state = "open"
                    THEN [conns[c] EXCEPT !.frames = @ \cup {[user_id |-> user_id, type |-> kind]}]
                    ELSE conns[c]]
    /\ UNCHANGED <<redisBars, redisHod, universe, clock, ing, cmd, pushed, purged,
                   engineVars, pushVars, apiVars,
                   rebuildLog, dayq, req, wsSent, hotq, groups, hb, tickLog, histVars>>

\* ---------------------------------------------------------------- heartbeat
\* The monitor clock counts passes of asyncio.sleep(0.5): half seconds.
HalfSeconds(s) == 2 * s
\* --heartbeat-seconds, default 30.0
HeartbeatSeconds == 30
\* r.set("scanner:ingestor:heartbeat", ..., ex=60)
HeartbeatTtl == 60
\* time.time() when monitor() starts: more than one cadence after the 0.0
\* last_heartbeat starts from
MonitorStartedAt == HalfSeconds(HeartbeatTtl)
\* half seconds of monitoring looked at
HbHorizon == 130

\* monitor() before its first pass: last_heartbeat = 0.0, no key in redis, no
\* heartbeat attempted
HbIdle == [now |-> MonitorStartedAt, key |-> Null, last_heartbeat |-> 0, beats |-> <<>>]

\* the key scanner:ingestor:heartbeat is there: set and not yet expired
HeartbeatLive(h) == h.key # Null /\ h.now < h.key[1]

\* (wrong variant) a failed heartbeat write leaving monitor()
MonitorBeatPassUncaught(dt, setOk, poll) ==
    /\ ing.pc = "monitor"
    /\ hb.now + dt <= MonitorStartedAt + HbHorizon
    /\ LET now_m == hb.now + dt
           due == /\ HeartbeatSeconds > 0
                  /\ now_m - hb.last_heartbeat >= HalfSeconds(HeartbeatSeconds)
           raised == due /\ ~setOk
       IN /\ (~due) => setOk
          /\ hb' = [now |-> now_m,
                    key |-> IF due /\ setOk THEN <<now_m + HalfSeconds(HeartbeatTtl)>>
                            ELSE hb.key,
                    last_heartbeat |-> IF due THEN now_m ELSE hb.last_heartbeat,
                    beats |-> IF due
                              THEN Append(hb.beats, [bars |-> PushedCount(pushed, BarKeys), at |-> now_m,
                                                     ok |-> setOk])
                              ELSE hb.beats]
          /\ ing' = IF raised THEN Teardown(ing, FALSE)
                    ELSE IF poll /\ universe # ing.current
                         THEN Teardown(ing, TRUE)
                         ELSE IF ~ing.connected
                              THEN Teardown(ing, FALSE)
                              ELSE ing
    /\ UNCHANGED <<redisBars, redisHod, universe, clock, cmd, pushed, purged,
                   engineVars, pushVars, apiVars,
                   rebuildLog, dayq, req, wsSent, hotq, conns, groups, tickLog, histVars>>

\* monitor(): one loop pass with its clock.  dt: the half seconds the pass
\* took (the sleep and the work); setOk: whether r.set of the heartbeat goes
\* through; poll: whether the universe poll is due.  When the heartbeat is due
\* last_heartbeat moves first, then the key is set with its ttl; r.set raising
\* ends the pass in "except Exception: monitor loop error (continuing)", with
\* the universe poll and the isConnected check of this pass skipped.
MonitorBeatPass(dt, setOk, poll) ==
    /\ ing.pc = "monitor"
    /\ hb.now + dt <= MonitorStartedAt + HbHorizon
    /\ LET now_m == hb.now + dt
           due == /\ HeartbeatSeconds > 0
                  /\ now_m - hb.last_heartbeat >= HalfSeconds(HeartbeatSeconds)
           raised == due /\ ~setOk
       IN /\ (~due) => setOk
          /\ hb' = [now |-> now_m,
                    key |-> IF due /\ setOk THEN <<now_m + HalfSeconds(HeartbeatTtl)>>
                            ELSE hb.key,
                    last_heartbeat |-> IF due THEN now_m ELSE hb.last_heartbeat,
                    beats |-> IF due
                              THEN Append(hb.beats, [bars |-> PushedCount(pushed, BarKeys), at |-> now_m,
                                                     ok |-> setOk])
                              ELSE hb.beats]
          /\ ing' = IF raised THEN ing
                    ELSE IF poll /\ universe # ing.current
                         THEN Teardown(ing, TRUE)
                         ELSE IF ~ing.connected
                              THEN Teardown(ing, FALSE)
                              ELSE ing
    /\ UNCHANGED <<redisBars, redisHod, universe, clock, cmd, pushed, purged,
                   engineVars, pushVars, apiVars,
                   rebuildLog, dayq, req, wsSent, hotq, conns, groups, tickLog, histVars>>

\* ------------------------------------------------- trading day of an instant
\* Instants are whole seconds since 2024-10-31 00:00:00 UTC.  America/New_York
\* is on EDT (UTC-4) until 2024-11-03 06:00:00 UTC and on EST (UTC-5) after it.
SecondsPerDay == 86400
SecondsPerHour == 3600
DstEndUtc == 3 * SecondsPerDay + 6 * SecondsPerHour

\* ts_utc.astimezone(TRADING_TZ): wall-clock seconds since 2024-10-31 00:00 local
ToEastern(ts_utc) ==
    IF ts_utc < DstEndUtc THEN ts_utc - 4 * SecondsPerHour ELSE ts_utc - 5 * SecondsPerHour

\* the calendar date d days after 2024-10-31 (October has 31 days)
DateOfDay(d) ==
    LET n == d + 30
    IN IF n < 31 THEN [d |-> n + 1, y |-> 2024, m |-> 10]
       ELSE [d |-> n - 30, y |-> 2024, m |-> 11]

\* day_date.strftime("%Y%m%d"), the eight digits read as a number
FormatDayId(date) == date.y * 10000 + date.m * 100 + date.d

\* (wrong variant) the 04:00 boundary taken on the UTC clock
TradingDayForUtcNoZone(ts_utc) ==
    LET date == ts_utc \div SecondsPerDay
        boundary_dt == date * SecondsPerDay
                       + DAY_START_HOUR * SecondsPerHour + DAY_START_MINUTE * 60
        day_date == IF ts_utc < boundary_dt THEN date - 1 ELSE date
    IN FormatDayId(DateOfDay(day_date))

\* trading_day_for_utc(ts_utc).day_id: the local date, or the one before it when
\* the local time is before the 04:00 boundary of that date
TradingDayForUtc(ts_utc) ==
    LET ts_et == ToEastern(ts_utc)
        date == ts_et \div SecondsPerDay
        boundary_dt == date * SecondsPerDay
                       + DAY_START_HOUR * SecondsPerHour + DAY_START_MINUTE * 60
        day_date == IF ts_et < boundary_dt THEN date - 1 ELSE date
    IN FormatDayId(DateOfDay(day_date))

\* trading_day_id(ts_utc), called once
DayQuery(ts_utc) ==
    /\ dayq' = [ts_utc |-> ts_utc, day_id |-> TradingDayForUtc(ts_utc)]
    /\ UNCHANGED <<redisBars, redisHod, universe, clock, ing, cmd, pushed, purged,
                   engineVars, pushVars, apiVars,
                   rebuildLog, req, wsSent, hotq, conns, groups, hb, tickLog, histVars>>

\* ------------------------------------------------- permission-guarded REST
\* settings.SCANNER_ADMIN_EMAIL of the deployment
ScannerAdminEmail == "boss@desk.io"

\* str.lower() on the e-mail addresses in use
Lower(email) ==
    CASE email = "Boss@Desk.io" -> "boss@desk.io"
      [] OTHER -> email

\* the authenticated callers: the configured admin (matched by e-mail, in another
\* case), a staff account, and a plain account
EmailAdmin == [id |-> 1, email |-> "Boss@Desk.io", is_superuser |-> FALSE, is_staff |-> FALSE]
StaffUser == [id |-> 1, email |-> "ops@desk.io", is_superuser |-> FALSE, is_staff |-> TRUE]
PlainUser == [id |-> 2, email |-> "trader@desk.io", is_superuser |-> FALSE, is_staff |-> FALSE]
Callers == {EmailAdmin, StaffUser, PlainUser}

SAFE_METHODS == {"GET", "HEAD", "OPTIONS"}

\* (wrong variant) every authenticated caller passes
IsScannerAdminAnyone(user) == user # Null

\* is_scanner_admin(user); an anonymous user is Null
IsScannerAdmin(user) ==
    IF user = Null THEN FALSE
    ELSE IF ScannerAdminEmail # "" /\ Lower(user.email) = Lower(ScannerAdminEmail)
         THEN TRUE
         ELSE user.is_superuser \/ user.is_staff

\* IsScannerAdminOrReadOnly.has_permission
HasPermission(method, user) == IF method \in SAFE_METHODS THEN TRUE ELSE IsScannerAdmin(user)

Response(user, endpoint, method, status) ==
    [user |-> user, method |-> method, endpoint |-> endpoint, status |-> status]

\* the 403 of a refused request: nothing but the response
Forbidden(user, endpoint, method) ==
    /\ req' = Response(user, endpoint, method, 403)
    /\ UNCHANGED <<redisBars, redisHod, universe, clock, ing, cmd, pushed, purged,
                   engineVars, pushVars, apiVars,
                   rebuildLog, dayq, wsSent, hotq, conns, groups, hb, tickLog, histVars>>

\* GET or PATCH /scanner/config/{pk}/ (ScannerConfigViewSet)
ApiConfig(user, method, cfg) ==
    IF ~HasPermission(method, user) THEN Forbidden(user, "config", method)
    ELSE /\ req' = Response(user, "config", method, 200)
         /\ config' = IF method = "PATCH" THEN cfg ELSE config
         /\ UNCHANGED <<redisBars, redisHod, universe, clock, ing, cmd, pushed, purged,
                        events, nextEventId, tick, pushQueue, pushVars, apiVars,
                        rebuildLog, dayq, wsSent, hotq, conns, groups, hb, tickLog, histVars>>

\* GET, POST or DELETE on /scanner/universe/ (ScannerUniverseTickerViewSet), for
\* the row of symbol s
ApiUniverse(user, method, s) ==
    IF ~HasPermission(method, user) THEN Forbidden(user, "universe", method)
    ELSE /\ req' = Response(user, "universe", method,
                            CASE method = "POST" -> 201 [] method = "DELETE" -> 204
                              [] OTHER -> 200)
         /\ universe' = CASE method = "POST" -> universe \cup {s}
                          [] method = "DELETE" -> universe \ {s}
                          [] OTHER -> universe
         /\ purged' = IF method = "POST" THEN purged \ {s} ELSE purged
         /\ UNCHANGED <<redisBars, redisHod, clock, ing, cmd, pushed,
                        engineVars, pushVars, apiVars,
                        rebuildLog, dayq, wsSent, hotq, conns, groups, hb, tickLog, histVars>>

\* GET /scanner/admin/status/: _require_admin, then the health payload
ApiStatus(user) ==
    IF ~IsScannerAdmin(user) THEN Forbidden(user, "status", "GET")
    ELSE /\ req' = Response(user, "status", "GET", 200)
         /\ UNCHANGED <<redisBars, redisHod, universe, clock, ing, cmd, pushed, purged,
                        engineVars, pushVars, apiVars,
                        rebuildLog, dayq, wsSent, hotq, conns, groups, hb, tickLog, histVars>>

\* POST /scanner/admin/emit_test_event/
ApiEmitTestEvent(user, sym) ==
    IF ~IsScannerAdmin(user) THEN Forbidden(user, "emit_test_event", "POST")
    ELSE /\ EmitTestEventHandler(sym)
         /\ req' = Response(user, "emit_test_event", "POST", 201)

\* POST /scanner/admin/emit_test_hot5/: the synthetic rows go to the caller only
ApiEmitTestHot5(user) ==
    IF ~IsScannerAdmin(user) THEN Forbidden(user, "emit_test_hot5", "POST")
    ELSE /\ req' = Response(user, "emit_test_hot5", "POST", 200)
         /\ wsSent' = wsSent \cup GroupSends("emit_test_hot5", "hot5", {user.id}, 0,
                                             <<[symbol |-> "AAPL", score |-> R(50)]>>)
         /\ UNCHANGED <<redisBars, redisHod, universe, clock, ing, cmd, pushed, purged,
                        engineVars, pushVars, apiVars,
                        rebuildLog, dayq, hotq, conns, groups, hb, tickLog, histVars>>

\* ------------------------------------------------------- HOT5 on its own
\* the tail of run_engine_once for a given all_metrics list: the selection
HotlistBuild(all_metrics) ==
    /\ hotq' = [all_metrics |-> all_metrics, items |-> Hot5Items(all_metrics)]
    /\ UNCHANGED <<redisBars, redisHod, universe, clock, ing, cmd, pushed, purged,
                   engineVars, pushVars, apiVars,
                   rebuildLog, dayq, req, wsSent, conns, groups, hb, tickLog, histVars>>

\* ------------------------------------------------ a symbol's work raises
\* the calls of the symbol loop that sit outside every try block: r.get of
\* get_hod_state, r.set of rebuild_hod_state_from_bars, the query of
\* allow_trigger_with_cooldown, ScannerTriggerEvent.objects.create
LoopPcs == {"hod", "rebuild_write", "gate", "create"}

\* one of these calls raises (redis or the database is unreachable): nothing
\* in run_engine_once or scanner_tick catches it, so the exception leaves the
\* loop, run_engine_once and the task; the symbols still to do and the HOT5
\* broadcast are never reached
TickRaise(w) ==
    /\ tick[w].pc \in LoopPcs
    /\ tick[w].todo # <<>>
    /\ tick[w].pc = "hod" =>
           Len(tick[w].barsMap[Head(tick[w].todo)]) >= MinBarsForMetrics
    /\ tickLog' = tickLog \cup {[w |-> w, what |-> "raised", at |-> Head(tick[w].todo)]}
    /\ tick' = [tick EXCEPT ![w] = TickIdle]
    /\ UNCHANGED <<redisBars, redisHod, universe, clock, ing, cmd, pushed, purged,
                   config, events, nextEventId, pushQueue, pushVars, apiVars,
                   rebuildLog, dayq, req, wsSent, hotq, conns, groups, hb, histVars>>

\* ------------------------------------------------- per-user preferences
\* the ids a URL /preferences/{pk}/ may carry: the caller's, another user's,
\* one that is nobody's
UrlPks == Users \cup {9}

\* (wrong variant) the row looked up by the pk of the URL
GetObjectByPk(request_user, pk) == IF pk \in Users THEN pk ELSE request_user

\* UserScannerSettingsViewSet.get_object: get_or_create(user=self.request.user),
\* the pk of the URL is not looked at
GetObject(request_user, pk) == request_user

\* bodies of a partial update: one serializer field and its new value
PreferencePatches == {<<"follow_alerts", FALSE>>, <<"notify_only_hod_break", TRUE>>}

\* serializer.save() of a partial update
ApplyPatch(row, data) == [row EXCEPT ![data[1]] = data[2]]

\* the 200 of a per-user endpoint: who asked, for which URL id, and the row
\* that was serialized
OwnerResponse(u, endpoint, method, pk, row) ==
    [user_id |-> u, pk |-> pk, method |-> method, endpoint |-> endpoint,
     status |-> 200, body |-> row]

\* GET or PATCH of /preferences/me/ and /preferences/{pk}/ by user u
Preferences(u, pk, method, data) ==
    /\ LET k == GetObject(u, pk)
           row == IF method = "GET" THEN userSettings[k]
                  ELSE ApplyPatch(userSettings[k], data)
       IN /\ userSettings' = [userSettings EXCEPT ![k] = row]
          /\ req' = OwnerResponse(u, "preferences", method, pk, row)
    /\ UNCHANGED <<redisBars, redisHod, universe, clock, ing, cmd, pushed, purged,
                   engineVars, pushCache, attempts, pw, appToken, pushRuns, apiVars,
                   rebuildLog, dayq, wsSent, hotq, conns, groups, hb, tickLog, histVars>>

\* POST /triggers/clear/ by user u with its response
ApiClear(u) ==
    /\ FeedClearHandler(u)
    /\ req' = OwnerResponse(u, "clear", "POST", u, userSettings'[u])

RECURSIVE LogCount(_, _)
LogCount(log, keys) ==
    IF keys = {} THEN 0
    ELSE LET k == CHOOSE x \in keys : TRUE
         IN Len(log[k]) + LogCount(log, keys \ {k})

\* the model stops handing bars over once MaxPushLog of them are in the history
PushBudgetOf(log) == LogCount(log, BarKeys) < MaxPushLog

\* ------------------------------------------------- push_bar called directly
\* push_bar(sym, bar, keep=N) with no explicit day, N being the --keep of the
\* deployment; the history keeps every bar handed over, newest first, under
\* the key of the bar's own trading day
PushBarCall(sym, bar) ==
    /\ PushBudgetOf(barLog)
    /\ redisBars' = PushBar(redisBars, sym, bar, ing.keep, Null)
    /\ barLog' = [barLog EXCEPT ![<<TradingDayId(bar.ts), sym>>] = <<bar>> \o @]
    /\ UNCHANGED <<redisHod, universe, clock, ing, cmd, pushed, purged,
                   engineVars, pushVars, apiVars,
                   rebuildLog, dayq, req, wsSent, hotq, conns, groups, hb, tickLog,
                   pruneArg, fired, creating, orderLog>>

vars == <<redisBars, redisHod, universe, clock, ing, cmd, pushed, purged,
          config, events, nextEventId, tick, pushQueue,
          userSettings, pushCache, attempts, pw, appToken, pushRuns, feed, fan,
          rebuildLog, dayq, req, wsSent, hotq, conns, groups, hb, tickLog, histVars>>

\* ------------------------------------------------------------ initial state
\* the ScannerConfig field defaults
DefaultConfig ==
    [min_pct_change_1m |-> <<4, 5>>, min_pct_change_5m |-> <<2, 1>>, require_hod_break |-> FALSE,
     min_vol_1m |-> 50000,
     rvol_1m_threshold |-> <<4, 1>>, rvol_5m_threshold |-> <<5, 2>>,
     require_green_candle |-> FALSE, cooldown_minutes |-> 15,
     realert_on_new_hod |-> TRUE, enabled |-> FALSE,
     timeframe |-> "1m", rvol_lookback_minutes |-> 180]

\* no engine activity: default config, no events, no tick running
EngineIdleInit ==
    /\ config = DefaultConfig
    /\ events = {}
    /\ nextEventId = 1
    /\ tick = [w \in TickIds |-> TickIdle]
    /\ pushQueue = {}

\* a user who switched the live feed off
LiveFeedOff == [DefaultUserSettings EXCEPT !.live_feed_enabled = FALSE]

\* no push activity: every user with the settings row `row`, empty cache, no
\* task running
PushIdleWith(row) ==
    /\ userSettings = [u \in Users |-> row]
    /\ pushCache = [k \in EventIds \X Users |-> Null]
    /\ attempts = <<>>
    /\ pw = [w \in PushWorkerIds |-> PushIdle]
    /\ appToken = FALSE
    /\ pushRuns = 0

\* the same with the UserScannerSettings field defaults
PushIdleInit == PushIdleWith(DefaultUserSettings)

\* no API request and no fan-out in progress
ApiIdleInit ==
    /\ feed = [u \in Users |-> FeedIdle]
    /\ fan = FanIdle

\* no direct rebuild, no day query, no guarded request, nothing sent over the
\* websocket, no connection open, no heartbeat written yet, no direct push
AuxIdleInit ==
    /\ rebuildLog = [k \in BarKeys |-> Null]
    /\ dayq = Null
    /\ req = Null
    /\ wsSent = {}
    /\ hotq = Null
    /\ conns = [c \in Channels |-> ConnIdle]
    /\ groups = [u \in Users |-> {}]
    /\ hb = HbIdle
    /\ tickLog = {}
    /\ barLog = [k \in BarKeys |-> <<>>]
    /\ pruneArg = Null
    /\ fired = {}
    /\ creating = [c \in Creators |-> Null]
    /\ orderLog = <<>>

IngInit(keep) ==
    [keep |-> keep, pc |-> "main_top", current |-> {}, attempt |-> 1,
     lastPushed |-> NoLastPushed, subscriptions |-> {}, subTodo |-> <<>>,
     reconnectRequested |-> FALSE, connected |-> FALSE, delQueue |-> {},
     delScan |-> Null, delThen |-> "idle", desired |-> {}]

KeepChoices == {2, 180}
\* 04:00 local, the first minute of trading day 0
DayStart == DAY_START_HOUR * 60 + DAY_START_MINUTE
FeedTs == {DayStart, DayStart + 1}
FeedBars == {[ts |-> t, h |-> h, c |-> 1, o |-> 1, l |-> 1, v |-> 1] : t \in FeedTs, h \in {1, 2}}

\* the steps of the ingestor process itself
IngestorStep ==
    \/ MainTop
    \/ MainWake
    \/ \E s \in Symbols : DeleteScan(s)
    \/ DeleteExec
    \/ ConnectOk
    \/ SubscribeNext
    \/ \E poll \in BOOLEAN : MonitorPass(poll)

InitIngest ==
    /\ redisBars = [k \in BarKeys |-> <<>>]
    /\ redisHod = [k \in BarKeys |-> Null]
    /\ universe \in {{"A"}, {"A", "B"}}
    /\ clock = DayStart
    /\ \E keep \in KeepChoices : ing = IngInit(keep)
    /\ cmd = CmdIdle
    /\ pushed = [k \in BarKeys |-> NonePushed]
    /\ purged = {}
    /\ EngineIdleInit
    /\ PushIdleInit
    /\ ApiIdleInit
    /\ AuxIdleInit

NextIngest ==
    \/ \E s \in {"B"} : UniverseAdd(s)
    \/ \E s \in {"B"} : UniverseRemove(s)
    \/ MainTop
    \/ MainWake
    \/ \E s \in Symbols : DeleteScan(s)
    \/ DeleteExec
    \/ ConnectOk
    \/ ConnectFail
    \/ SubscribeNext
    \/ SubscribeError
    \/ GatewayDrop
    \/ \E poll \in BOOLEAN : MonitorPass(poll)
    \/ \E s \in Symbols, b \in FeedBars, ok \in BOOLEAN : FeedBar(s, b, ok)

SpecIngest == InitIngest /\ [][NextIngest]_vars

\* ------------------------------------- the ingestor and the synthetic-bar command
\* scanner_emit_test_bar A --n 2 --start-minutes-ago 0 --start-price 10 --step 10
\* --start-volume 5, run up to MaxCmdRuns times next to a feed that works
NextBars ==
    \/ IngestorStep
    \/ \E s \in {"B"} : UniverseAdd(s)
    \/ \E s \in {"B"} : UniverseRemove(s)
    \/ \E s \in Symbols, b \in FeedBars : FeedBar(s, b, TRUE)
    \/ CmdStart("A", 2, 0, 10, 10, 5, Null, Null)
    \/ CmdPush

SpecBars == InitIngest /\ [][NextBars]_vars

\* ---------------------------------------------------- engine over a live feed
\* five quiet bars 04:00..04:04, as the list holds them (newest first)
SeedCount == MinBarsForMetrics - 1
SeedBar(i) == [ts |-> DayStart + i, h |-> 10, c |-> 10, o |-> 10, l |-> 10, v |-> 1000]
SeedList == [i \in 1..SeedCount |-> SeedBar(SeedCount - i)]
SeedPushed == [n |-> 0, hi |-> <<10>>, prevHi |-> <<10>>]

\* the ingestor in monitor(), connected and subscribed to `syms`, after it
\* delivered the seed bars
IngMonitoring(syms, keep) ==
    [IngInit(keep) EXCEPT !.pc = "monitor", !.current = syms, !.desired = syms,
                          !.subscriptions = syms, !.connected = TRUE,
                          !.lastPushed = [s \in Symbols |->
                              IF s \in syms THEN <<DayStart + SeedCount - 1>> ELSE Null]]

\* the store after the seed bars of `syms`
SeededInit(syms, keep) ==
    /\ redisBars = [k \in BarKeys |-> IF k[1] = 0 /\ k[2] \in syms THEN SeedList ELSE <<>>]
    /\ redisHod = [k \in BarKeys |-> Null]
    /\ universe = syms
    /\ clock = DayStart + SeedCount
    /\ ing = IngMonitoring(syms, keep)
    /\ cmd = CmdIdle
    /\ pushed = [k \in BarKeys |-> IF k[1] = 0 /\ k[2] \in syms THEN SeedPushed ELSE NonePushed]
    /\ purged = {}

\* the bars the feed may deliver next: volume spikes to 11 and to 12, and a red
\* candle down from 12
SpikeBar(t, top) == [ts |-> t, h |-> top, c |-> top, o |-> top - 1, l |-> top - 1, v |-> 100000]
RedBar(t) == [ts |-> t, h |-> 12, c |-> 11, o |-> 12, l |-> 11, v |-> 100000]
EngineFeedBars ==
    {SpikeBar(DayStart + SeedCount, 11),
     SpikeBar(DayStart + SeedCount + 1, 11), SpikeBar(DayStart + SeedCount + 1, 12),
     RedBar(DayStart + SeedCount + 1)}

\* the admin's configs: realert off or on with a 1-minute cooldown, and realert
\* on with a 2-minute cooldown and both optional gates demanded
EngineConfig(r, q) ==
    [DefaultConfig EXCEPT !.enabled = TRUE, !.realert_on_new_hod = r,
                          !.cooldown_minutes = IF q THEN 2 ELSE 1,
                          !.require_hod_break = q, !.require_green_candle = q]
EngineConfigs == {EngineConfig(FALSE, FALSE), EngineConfig(TRUE, FALSE), EngineConfig(TRUE, TRUE)}

EngineClockMax == DayStart + SeedCount + 2

InitEngine ==
    /\ SeededInit({"A"}, CmdKeep)
    /\ config \in EngineConfigs
    /\ events = {}
    /\ nextEventId = 1
    /\ tick = [w \in TickIds |-> TickIdle]
    /\ pushQueue = {}
    /\ PushIdleWith(LiveFeedOff)
    /\ ApiIdleInit
    /\ AuxIdleInit

\* one scanner_tick at a time (ticks in sequence), a live feed, an admin
NextEngine ==
    \/ \E s \in Symbols, b \in EngineFeedBars : FeedBar(s, b, TRUE)
    \/ AdvanceClockBy(1, EngineClockMax)
    \/ \E cfg \in EngineConfigs : ConfigPatch(cfg)
    \/ \E s \in {"A"} : EmitTestEvent(s)
    \/ TickTaskStart(1)
    \/ TickEngineStart(1)
    \/ TickResolveHod(1)
    \/ TickRebuildWrite(1)
    \/ TickGate(1)
    \/ TickCreate(1)
    \/ TickFinish(1)

SpecEngine == InitEngine /\ [][NextEngine]_vars

\* ------------------------------------------------------- push worker runs
PushEnabled == [DefaultUserSettings EXCEPT !.pushover_enabled = TRUE, !.pushover_user_key = "k"]
PushHodOnly == [PushEnabled EXCEPT !.notify_only_hod_break = TRUE]
PushSettingsChoices == {DefaultUserSettings, PushEnabled}

\* a whole TTL fits in the run, walked in two halves
PushClockStep == PushTtlMinutes \div 2
PushClockMax == DayStart + PushTtlMinutes

InitPush ==
    /\ redisBars = [k \in BarKeys |-> <<>>]
    /\ redisHod = [k \in BarKeys |-> Null]
    /\ universe = {"A"}
    /\ clock = DayStart
    /\ ing = IngInit(CmdKeep)
    /\ cmd = CmdIdle
    /\ pushed = [k \in BarKeys |-> NonePushed]
    /\ purged = {}
    /\ EngineIdleInit
    /\ userSettings \in {[u \in Users |-> IF u = 1 THEN PushEnabled ELSE st] :
                             st \in PushSettingsChoices}
    /\ pushCache = [k \in EventIds \X Users |-> Null]
    /\ attempts = <<>>
    /\ pw = [w \in PushWorkerIds |-> PushIdle]
    /\ appToken \in BOOLEAN
    /\ pushRuns = 0
    /\ ApiIdleInit
    /\ AuxIdleInit

\* test events from the admin, repeated deliveries of each queued task to two
\* workers, sends failing or not, time passing
NextPush ==
    \/ \E s \in {"A"} : EmitTestEvent(s)
    \/ \E w \in PushWorkerIds, id \in EventIds : PushStart(w, id, MaxPushRuns)
    \/ \E w \in PushWorkerIds, u \in Users : PushNextUser(w, u)
    \/ \E w \in PushWorkerIds, ok \in BOOLEAN : PushSend(w, ok)
    \/ \E w \in PushWorkerIds : PushDone(w)
    \/ AdvanceClockBy(PushClockStep, PushClockMax)

SpecPush == InitPush /\ [][NextPush]_vars

\* ------------------------------------- universe changes under a running engine
QuietBar(t) == [ts |-> t, h |-> 10, c |-> 10, o |-> 10, l |-> 10, v |-> 1000]
ReconFeedBars == {QuietBar(DayStart + SeedCount)}

InitRecon ==
    /\ SeededInit({"A", "B"}, CmdKeep)
    /\ config = EngineConfig(TRUE, FALSE)
    /\ events = {}
    /\ nextEventId = 1
    /\ tick = [w \in TickIds |-> TickIdle]
    /\ pushQueue = {}
    /\ PushIdleWith(LiveFeedOff)
    /\ ApiIdleInit
    /\ AuxIdleInit

\* the ingestor (no connect or subscribe failure), an admin toggling B, a quiet
\* feed and one scanner_tick worker
NextRecon ==
    \/ \E s \in {"B"} : UniverseAdd(s)
    \/ \E s \in {"B"} : UniverseRemove(s)
    \/ MainTop
    \/ MainWake
    \/ \E s \in Symbols : DeleteScan(s)
    \/ DeleteExec
    \/ ConnectOk
    \/ SubscribeNext
    \/ \E poll \in BOOLEAN : MonitorPass(poll)
    \/ \E s \in Symbols, b \in ReconFeedBars : FeedBar(s, b, TRUE)
    \/ TickTaskStart(1)
    \/ TickEngineStart(1)
    \/ TickResolveHod(1)
    \/ TickRebuildWrite(1)
    \/ TickGate(1)
    \/ TickFinish(1)

SpecRecon == InitRecon /\ [][NextRecon]_vars

\* ------------------------------------------------- the ingestor, scheduled fairly
LiveFeedBars == {QuietBar(DayStart)}

InitLive ==
    /\ redisBars = [k \in BarKeys |-> <<>>]
    /\ redisHod = [k \in BarKeys |-> Null]
    /\ universe \in {{"A"}, {"A", "B"}}
    /\ clock = DayStart
    /\ ing = IngInit(CmdKeep)
    /\ cmd = CmdIdle
    /\ pushed = [k \in BarKeys |-> NonePushed]
    /\ purged = {}
    /\ EngineIdleInit
    /\ PushIdleInit
    /\ ApiIdleInit
    /\ AuxIdleInit

NextLive ==
    \/ IngestorStep
    \/ \E s \in {"B"} : UniverseAdd(s)
    \/ \E s \in {"B"} : UniverseRemove(s)
    \/ ing.pc = "monitor" /\ GatewayDrop
    \/ \E s \in Symbols, b \in LiveFeedBars : FeedBar(s, b, TRUE)

\* sessions are lost only once the ingestor is subscribed and monitoring;
\* the event loop keeps running the process: every sleep ends, every await
\* returns, the universe poll comes due, and the gateway accepts the connection
SpecLive ==
    /\ InitLive
    /\ [][NextLive]_vars
    /\ WF_vars(MainTop)
    /\ WF_vars(MainWake)
    /\ WF_vars(\E s \in Symbols : DeleteScan(s))
    /\ WF_vars(DeleteExec)
    /\ WF_vars(ConnectOk)
    /\ WF_vars(SubscribeNext)
    /\ WF_vars(MonitorPass(TRUE))
    /\ WF_vars(MonitorPass(FALSE))

\* ----------------------------------------------- the per-user trigger feed
FeedClockMax == DayStart + 2

\* the requests made: the list, the list of another symbol, the first event
FeedQueries == {<<"list", Null, Null>>, <<"list", Null, <<"B">>>>, <<"detail", 1, Null>>}

\* empty tables, every user with the default settings row (no cursor)
InitFeed ==
    /\ redisBars = [k \in BarKeys |-> <<>>]
    /\ redisHod = [k \in BarKeys |-> Null]
    /\ universe = {"A"}
    /\ clock = DayStart
    /\ ing = IngInit(CmdKeep)
    /\ cmd = CmdIdle
    /\ pushed = [k \in BarKeys |-> NonePushed]
    /\ purged = {}
    /\ EngineIdleInit
    /\ PushIdleInit
    /\ ApiIdleInit
    /\ AuxIdleInit

\* events being created while two users list, look up and clear, and user 1
\* resets their cursor
NextFeed ==
    \/ \E s \in {"A"} : EmitTestEvent(s)
    \/ \E u \in Users, q \in FeedQueries : FeedRequest(u, q[1], q[2], q[3])
    \/ \E u \in Users : FeedRespond(u)
    \/ \E u \in Users : FeedClear(u)
    \/ \E u \in {1} : SettingsPatch(u, [userSettings[u] EXCEPT !.cleared_until = Null])
    \/ AdvanceClockBy(1, FeedClockMax)

SpecFeed == InitFeed /\ [][NextFeed]_vars

\* ------------------------------------------------- the websocket fan-out
\* callers fanning a trigger or a hotlist out to the users their query selected,
\* any delivery failing, users switching follow_alerts / live_feed_enabled
NextFanout ==
    \/ \E kind \in {"trigger", "hot5"} :
          \E user_ids \in FanAudiences(kind) : FanStart(kind, user_ids)
    \/ \E ok \in BOOLEAN : FanPublish(ok)
    \/ FanReturn
    \/ \E u \in Users :
          SettingsPatch(u, [userSettings[u] EXCEPT !.follow_alerts = ~@])
    \/ \E u \in Users :
          SettingsPatch(u, [userSettings[u] EXCEPT !.live_feed_enabled = ~@])

SpecFanout == InitFeed /\ [][NextFanout]_vars

\* ------------------------------------------------ the push audience
NotFollowing == [PushEnabled EXCEPT !.follow_alerts = FALSE]
NoUserKey == [PushEnabled EXCEPT !.pushover_user_key = ""]
AudienceChoices1 == {PushEnabled, NotFollowing, NoUserKey}
AudienceChoices2 == {PushEnabled, DefaultUserSettings}
AudienceClockMax == DayStart + 1

\* a deployment with the app token set; each user's row fails none or one of
\* the conditions of the queryset
InitAudience ==
    /\ redisBars = [k \in BarKeys |-> <<>>]
    /\ redisHod = [k \in BarKeys |-> Null]
    /\ universe = {"A"}
    /\ clock = DayStart
    /\ ing = IngInit(CmdKeep)
    /\ cmd = CmdIdle
    /\ pushed = [k \in BarKeys |-> NonePushed]
    /\ purged = {}
    /\ EngineIdleInit
    /\ userSettings \in {[u \in Users |-> IF u = 1 THEN s1 ELSE s2] :
                             s1 \in AudienceChoices1, s2 \in AudienceChoices2}
    /\ pushCache = [k \in EventIds \X Users |-> Null]
    /\ attempts = <<>>
    /\ pw = [w \in PushWorkerIds |-> PushIdle]
    /\ appToken = TRUE
    /\ pushRuns = 0
    /\ ApiIdleInit
    /\ AuxIdleInit

\* test events, the task delivered to two workers, user 2 clearing their feed,
\* user 1 switching follow_alerts, time passing
NextAudience ==
    \/ \E s \in {"A"} : EmitTestEvent(s)
    \/ \E w \in PushWorkerIds, id \in EventIds : PushStart(w, id, MaxPushRuns)
    \/ \E w \in PushWorkerIds, u \in Users : PushNextUser(w, u)
    \/ \E w \in PushWorkerIds : PushSend(w, TRUE)
    \/ \E w \in PushWorkerIds : PushDone(w)
    \/ \E u \in {2} : FeedClear(u)
    \/ \E u \in {1} : SettingsPatch(u, [userSettings[u] EXCEPT !.follow_alerts = ~@])
    \/ AdvanceClockBy(1, AudienceClockMax)

SpecAudience == InitAudience /\ [][NextAudience]_vars

\* ------------------------------------------------ the per-user push gating
MinScoreTen == [PushEnabled EXCEPT !.notify_min_score = <<R(10)>>]
MinScoreZero == [PushEnabled EXCEPT !.notify_min_score = <<R(0)>>]
\* rows that skip a test event (score 0, no HOD break), and rows that let it through
GatingStrict == {PushHodOnly, MinScoreTen}
GatingRelaxed == {PushEnabled, MinScoreZero}
GatingClockMax == DayStart + 1
GatingRuns == MaxPushRuns + 1

\* user 2 starts with preferences that skip test events; user 1 has push off
InitGating ==
    /\ redisBars = [k \in BarKeys |-> <<>>]
    /\ redisHod = [k \in BarKeys |-> Null]
    /\ universe = {"A"}
    /\ clock = DayStart
    /\ ing = IngInit(CmdKeep)
    /\ cmd = CmdIdle
    /\ pushed = [k \in BarKeys |-> NonePushed]
    /\ purged = {}
    /\ EngineIdleInit
    /\ userSettings \in {[u \in Users |-> IF u = 1 THEN DefaultUserSettings ELSE st] :
                             st \in GatingStrict}
    /\ pushCache = [k \in EventIds \X Users |-> Null]
    /\ attempts = <<>>
    /\ pw = [w \in PushWorkerIds |-> PushIdle]
    /\ appToken = TRUE
    /\ pushRuns = 0
    /\ ApiIdleInit
    /\ AuxIdleInit

\* test events, the task replayed to two workers, user 2 tightening and
\* relaxing their preferences, a minute passing
NextGating ==
    \/ \E s \in {"A"} : EmitTestEvent(s)
    \/ \E w \in PushWorkerIds, id \in EventIds : PushStart(w, id, GatingRuns)
    \/ \E w \in PushWorkerIds, u \in Users : PushNextUser(w, u)
    \/ \E w \in PushWorkerIds, ok \in BOOLEAN : PushSend(w, ok)
    \/ \E w \in PushWorkerIds : PushDone(w)
    \/ \E u \in {2}, st \in GatingStrict \cup GatingRelaxed : SettingsPatch(u, st)
    \/ AdvanceClockBy(1, GatingClockMax)

SpecGating == InitGating /\ [][NextGating]_vars

\* ------------------------------------------- push sends that fail, rows that go
FailClockStep == MinutesPerDay + 1
FailClockMax == DayStart + FailClockStep

\* both users take pushes; the app token is set
InitPushFail ==
    /\ redisBars = [k \in BarKeys |-> <<>>]
    /\ redisHod = [k \in BarKeys |-> Null]
    /\ universe = {"A"}
    /\ clock = DayStart
    /\ ing = IngInit(CmdKeep)
    /\ cmd = CmdIdle
    /\ pushed = [k \in BarKeys |-> NonePushed]
    /\ purged = {}
    /\ EngineIdleInit
    /\ userSettings = [u \in Users |-> PushEnabled]
    /\ pushCache = [k \in EventIds \X Users |-> Null]
    /\ attempts = <<>>
    /\ pw = [w \in PushWorkerIds |-> PushIdle]
    /\ appToken = TRUE
    /\ pushRuns = 0
    /\ ApiIdleInit
    /\ AuxIdleInit

\* test events, the task delivered and redelivered to one worker, sends that
\* fail, more than a day passing, the nightly prune deleting old events
NextPushFail ==
    \/ \E s \in {"A"} : EmitTestEvent(s)
    \/ \E id \in EventIds : PushStart(1, id, MaxPushRuns)
    \/ \E u \in Users : PushNextUser(1, u)
    \/ \E ok \in BOOLEAN : PushSend(1, ok)
    \/ PushDone(1)
    \/ PruneEvents(IntArg(1))
    \/ AdvanceClockBy(FailClockStep, FailClockMax)

SpecPushFail == InitPushFail /\ [][NextPushFail]_vars

\* ------------------------------------------------- ticks on parallel workers
TicksClockMax == DayStart + SeedCount + 1

\* the beat interval (60 s) has passed since every tick still running started
BeatDue(w) ==
    \A x \in TickIds \ {w} :
        IF tick[x].pc = "idle" THEN TRUE
        ELSE IF tick[x].pc = "engine" THEN FALSE
        ELSE tick[x].now + 1 <= clock

\* as InitEngine, with realert off
InitTicks ==
    /\ SeededInit({"A"}, CmdKeep)
    /\ config = EngineConfig(FALSE, FALSE)
    /\ events = {}
    /\ nextEventId = 1
    /\ tick = [w \in TickIds |-> TickIdle]
    /\ pushQueue = {}
    /\ PushIdleInit
    /\ ApiIdleInit
    /\ AuxIdleInit

\* the beat sends scanner_tick every minute to a pool of two workers; a tick
\* takes as long as it takes
NextTicks ==
    \/ \E b \in {SpikeBar(DayStart + SeedCount, 11)} : FeedBar("A", b, TRUE)
    \/ AdvanceClockBy(1, TicksClockMax)
    \/ \E w \in TickIds : BeatDue(w) /\ TickTaskStart(w)
    \/ \E w \in TickIds : TickEngineStart(w)
    \/ \E w \in TickIds : TickResolveHod(w)
    \/ \E w \in TickIds : TickRebuildWrite(w)
    \/ \E w \in TickIds : TickGate(w)
    \/ \E w \in TickIds : TickCreate(w)
    \/ \E w \in TickIds : TickFinish(w)

SpecTicks == InitTicks /\ [][NextTicks]_vars

\* ------------------------------------------------ HOD rebuilt from the list
\* the ingestor monitoring A after the seed bars; the feed delivers up to two
\* more bars with a high below, at or above the seeds'; the HOD of either symbol
\* is rebuilt at any moment (B has no bars)
RebuildFeedBars ==
    {[ts |-> DayStart + SeedCount + i, h |-> h, c |-> 9, o |-> 9, l |-> 9, v |-> 1000] :
        i \in {0, 1}, h \in {9, 11, 12}}

InitRebuild ==
    /\ \E keep \in KeepChoices : SeededInit({"A"}, keep)
    /\ EngineIdleInit
    /\ PushIdleInit
    /\ ApiIdleInit
    /\ AuxIdleInit

NextRebuild ==
    \/ \E b \in RebuildFeedBars : FeedBar("A", b, TRUE)
    \/ \E s \in Symbols : RebuildHod(s, 0)

SpecRebuild == InitRebuild /\ [][NextRebuild]_vars

\* ---------------------------------------------------- trading day boundary
\* instants within DayProbe seconds of: the 04:00 boundaries of Oct 31, Nov 1,
\* Nov 3 and Nov 4 (local), local and UTC midnight of Nov 1, the end of DST on
\* Nov 3, and 08:00 UTC of Nov 3 (04:00 had DST not ended)
DayProbe == 8
DayAnchors ==
    {d * SecondsPerDay + h * SecondsPerHour :
        <<d, h>> \in {<<0, 8>>, <<1, 0>>, <<1, 4>>, <<1, 8>>, <<3, 6>>, <<3, 8>>, <<3, 9>>, <<4, 9>>}}
DayInstants == {a + x : a \in DayAnchors, x \in (0 - DayProbe)..DayProbe}

InitDay ==
    /\ SeededInit({"A"}, CmdKeep)
    /\ EngineIdleInit
    /\ PushIdleInit
    /\ ApiIdleInit
    /\ AuxIdleInit

NextDay == \E ts \in DayInstants : DayQuery(ts)

SpecDay == InitDay /\ [][NextDay]_vars

\* ------------------------------------------------------- the admin surface
\* the three callers use every guarded endpoint; the ingestor monitors A
AdminConfigs == {DefaultConfig, [DefaultConfig EXCEPT !.enabled = TRUE]}

InitAdmin ==
    /\ SeededInit({"A"}, CmdKeep)
    /\ EngineIdleInit
    /\ PushIdleInit
    /\ ApiIdleInit
    /\ AuxIdleInit

NextAdmin ==
    \/ \E user \in Callers, method \in {"GET", "PATCH"}, cfg \in AdminConfigs :
          ApiConfig(user, method, cfg)
    \/ \E user \in Callers, method \in {"GET", "POST", "DELETE"} : ApiUniverse(user, method, "B")
    \/ \E user \in Callers : ApiStatus(user)
    \/ \E user \in Callers : ApiEmitTestEvent(user, "A")
    \/ \E user \in Callers : ApiEmitTestHot5(user)

SpecAdmin == InitAdmin /\ [][NextAdmin]_vars

\* ------------------------------------------------ the scanner switched off
\* as SpecTicks, with an admin who switches the scanner off and on and both
\* users on the live feed
DisabledConfigs == {EngineConfig(FALSE, FALSE), [EngineConfig(FALSE, FALSE) EXCEPT !.enabled = FALSE]}

InitDisabled ==
    /\ SeededInit({"A"}, CmdKeep)
    /\ config \in DisabledConfigs
    /\ events = {}
    /\ nextEventId = 1
    /\ tick = [w \in TickIds |-> TickIdle]
    /\ pushQueue = {}
    /\ PushIdleInit
    /\ ApiIdleInit
    /\ AuxIdleInit

NextDisabled ==
    \/ \E b \in {SpikeBar(DayStart + SeedCount, 11)} : FeedBar("A", b, TRUE)
    \/ \E cfg \in DisabledConfigs : ConfigPatch(cfg)
    \/ \E w \in TickIds : BeatDue(w) /\ TickTaskStart(w)
    \/ \E w \in TickIds : TickEngineStart(w)
    \/ \E w \in TickIds : TickResolveHod(w)
    \/ \E w \in TickIds : TickRebuildWrite(w)
    \/ \E w \in TickIds : TickGate(w)
    \/ \E w \in TickIds : TickCreate(w)
    \/ \E w \in TickIds : TickFinish(w)

SpecDisabled == InitDisabled /\ [][NextDisabled]_vars

\* ------------------------------------------------------------- the hot list
\* metrics lists of 1, 3 and HotMax symbols in universe order; the scores are
\* the profile below, started at any of its first HotMax places
HotMax == 6
HotSymbols == <<"A", "B", "C", "D", "E", "F", "G", "H">>
HotProfile == <<R(0), R(5), R(20), R(5), R(20), R(5), R(5), R(20)>>
HotInputs ==
    {[i \in 1..n |-> [symbol |-> HotSymbols[i],
                      score |-> HotProfile[((i + r) % HotMax) + 1]]] :
        n \in {1, 3, HotMax}, r \in 0..(HotMax - 1)}

\* the ingestor monitors A and B; A spikes twice while B stays quiet
HotFeedBars ==
    {SpikeBar(DayStart + SeedCount, 11), SpikeBar(DayStart + SeedCount + 1, 12)}

InitHot ==
    /\ SeededInit({"A", "B"}, CmdKeep)
    /\ config = EngineConfig(FALSE, FALSE)
    /\ events = {}
    /\ nextEventId = 1
    /\ tick = [w \in TickIds |-> TickIdle]
    /\ pushQueue = {}
    /\ PushIdleInit
    /\ ApiIdleInit
    /\ AuxIdleInit

NextHot ==
    \/ \E b \in HotFeedBars : FeedBar("A", b, TRUE)
    \/ \E b \in {QuietBar(DayStart + SeedCount)} : FeedBar("B", b, TRUE)
    \/ \E ms \in HotInputs : HotlistBuild(ms)
    \/ TickTaskStart(1)
    \/ TickEngineStart(1)
    \/ TickResolveHod(1)
    \/ TickRebuildWrite(1)
    \/ TickGate(1)
    \/ TickCreate(1)
    \/ TickFinish(1)

SpecHot == InitHot /\ [][NextHot]_vars

\* --------------------------------------------------------- websocket clients
\* two channels connect as either user or anonymously and disconnect, while
\* trigger and hot5 payloads are published for either user
InitSocket ==
    /\ SeededInit({"A"}, CmdKeep)
    /\ EngineIdleInit
    /\ PushIdleInit
    /\ ApiIdleInit
    /\ AuxIdleInit

NextSocket ==
    \/ \E c \in Channels, user \in ScopeUsers : WsConnect(c, user)
    \/ \E c \in Channels : WsDisconnect(c)
    \/ \E u \in Users, kind \in {"trigger", "hot5"} : WsGroupSend(u, kind)

SpecSocket == InitSocket /\ [][NextSocket]_vars

\* ------------------------------------------------- who is sent what
\* user 2 stops and resumes following, user 1 closes and reopens the live
\* feed; a tick over a spiking A; the admin's and the plain user's test calls
InitSeparation ==
    /\ SeededInit({"A"}, CmdKeep)
    /\ config = EngineConfig(FALSE, FALSE)
    /\ events = {}
    /\ nextEventId = 1
    /\ tick = [w \in TickIds |-> TickIdle]
    /\ pushQueue = {}
    /\ userSettings = [u \in Users |-> DefaultUserSettings]
    /\ pushCache = [k \in EventIds \X Users |-> Null]
    /\ attempts = <<>>
    /\ pw = [w \in PushWorkerIds |-> PushIdle]
    /\ appToken = FALSE
    /\ pushRuns = 0
    /\ ApiIdleInit
    /\ AuxIdleInit

NextSeparation ==
    \/ \E b \in {SpikeBar(DayStart + SeedCount, 11)} : FeedBar("A", b, TRUE)
    \/ SettingsPatch(2, [userSettings[2] EXCEPT !.follow_alerts = ~@])
    \/ SettingsPatch(1, [userSettings[1] EXCEPT !.live_feed_enabled = ~@])
    \/ \E user \in {EmailAdmin, PlainUser} : ApiEmitTestEvent(user, "A")
    \/ \E user \in {EmailAdmin, PlainUser} : ApiEmitTestHot5(user)
    \/ TickTaskStart(1)
    \/ TickEngineStart(1)
    \/ TickResolveHod(1)
    \/ TickRebuildWrite(1)
    \/ TickGate(1)
    \/ TickCreate(1)
    \/ TickFinish(1)

SpecSeparation == InitSeparation /\ [][NextSeparation]_vars

\* ------------------------------------------- a tick with a failing call
\* A and B both hold a session of bars, both spike; one tick at a time over
\* both, and any call of the loop may raise
FailureFeedBars == {SpikeBar(DayStart + SeedCount, 11)}

InitFailure ==
    /\ SeededInit({"A", "B"}, CmdKeep)
    /\ config = EngineConfig(FALSE, FALSE)
    /\ events = {}
    /\ nextEventId = 1
    /\ tick = [w \in TickIds |-> TickIdle]
    /\ pushQueue = {}
    /\ PushIdleInit
    /\ ApiIdleInit
    /\ AuxIdleInit

NextFailure ==
    \/ \E s \in Symbols, b \in FailureFeedBars : FeedBar(s, b, TRUE)
    \/ TickTaskStart(1)
    \/ TickEngineStart(1)
    \/ TickResolveHod(1)
    \/ TickRebuildWrite(1)
    \/ TickGate(1)
    \/ TickCreate(1)
    \/ TickFinish(1)
    \/ TickRaise(1)

SpecFailure == InitFailure /\ [][NextFailure]_vars

\* ---------------------------------------------- two users and their rows
OwnerClockMax == DayStart + 2

\* events arriving while both users patch preferences under any URL id and
\* clear their lists, and user 1 reads them
NextOwner ==
    \/ \E s \in {"A"} : EmitTestEvent(s)
    \/ \E u \in {1}, pk \in UrlPks : Preferences(u, pk, "GET", <<>>)
    \/ \E u \in Users, pk \in UrlPks, data \in PreferencePatches :
          Preferences(u, pk, "PATCH", data)
    \/ \E u \in Users : ApiClear(u)
    \/ AdvanceClockBy(1, OwnerClockMax)

SpecOwner == InitFeed /\ [][NextOwner]_vars

\* ------------------------------------------------ monitoring with a clock
\* the ingestor subscribed to A and monitoring; passes of half a second or a
\* whole one, the heartbeat write going through or not, bars arriving
BeatFeedBars == {SpikeBar(DayStart + SeedCount + i, 11 + i) : i \in 0..1}

InitBeat ==
    /\ SeededInit({"A"}, CmdKeep)
    /\ EngineIdleInit
    /\ PushIdleInit
    /\ ApiIdleInit
    /\ AuxIdleInit

NextBeat ==
    \/ \E dt \in {1, 2}, setOk \in BOOLEAN, poll \in BOOLEAN : MonitorBeatPass(dt, setOk, poll)
    \/ \E b \in BeatFeedBars : FeedBar("A", b, TRUE)

SpecBeat == InitBeat /\ [][NextBeat]_vars

\* ------------------------------------------------ direct pushes, keep = N
\* bars of the minute before 04:00 (the previous trading day) and of the two
\* minutes after it, for A and B, in any order and any number of times
KeepSmall == {1, 2}
PushCallBars ==
    {[ts |-> t, h |-> 1, c |-> 1, o |-> 1, l |-> 1, v |-> 1] :
        t \in {DayStart - 1, DayStart, DayStart + 1}}

InitKeep ==
    /\ redisBars = [k \in BarKeys |-> <<>>]
    /\ redisHod = [k \in BarKeys |-> Null]
    /\ universe = {"A", "B"}
    /\ clock = DayStart
    /\ \E keep \in KeepSmall : ing = IngInit(keep)
    /\ cmd = CmdIdle
    /\ pushed = [k \in BarKeys |-> NonePushed]
    /\ purged = {}
    /\ EngineIdleInit
    /\ PushIdleInit
    /\ ApiIdleInit
    /\ AuxIdleInit

NextKeep == \E s \in Symbols, b \in PushCallBars : PushBarCall(s, b)

SpecKeep == InitKeep /\ [][NextKeep]_vars

\* ------------------------------------------------- a symbol short of bars
\* A holds five bars of day 0; B holds six bars of the day before and none,
\* four or five of day 0; the feed delivers the 04:05 spike for both
ShortCounts == {0, SeedCount - 1, SeedCount}
YesterdayList ==
    [i \in 1..MinBarsForMetrics |->
        [SeedBar(MinBarsForMetrics - i) EXCEPT !.ts = @ - MinutesPerDay]]

InitShort ==
    /\ \E n \in ShortCounts :
          /\ redisBars = [k \in BarKeys |->
                IF k = <<0, "A">> THEN SeedList
                ELSE IF k = <<-1, "B">> THEN YesterdayList
                ELSE IF k = <<0, "B">> THEN [i \in 1..n |-> SeedBar(n - i)]
                ELSE <<>>]
          /\ ing = [IngMonitoring({"A", "B"}, CmdKeep) EXCEPT
                       !.lastPushed["B"] = IF n = 0 THEN Null ELSE <<DayStart + n - 1>>]
          /\ pushed = [k \in BarKeys |->
                IF k = <<0, "A">> \/ (k = <<0, "B">> /\ n > 0) THEN SeedPushed
                ELSE NonePushed]
    /\ redisHod = [k \in BarKeys |-> Null]
    /\ universe = {"A", "B"}
    /\ clock = DayStart + SeedCount
    /\ cmd = CmdIdle
    /\ purged = {}
    /\ config = EngineConfig(FALSE, FALSE)
    /\ events = {}
    /\ nextEventId = 1
    /\ tick = [w \in TickIds |-> TickIdle]
    /\ pushQueue = {}
    /\ PushIdleInit
    /\ ApiIdleInit
    /\ AuxIdleInit

NextShort ==
    \/ \E s \in Symbols, b \in {SpikeBar(DayStart + SeedCount, 11)} : FeedBar(s, b, TRUE)
    \/ TickTaskStart(1)
    \/ TickEngineStart(1)
    \/ TickResolveHod(1)
    \/ TickRebuildWrite(1)
    \/ TickGate(1)
    \/ TickCreate(1)
    \/ TickFinish(1)

SpecShort == InitShort /\ [][NextShort]_vars

\* ------------------------------------------------------- the retention job
\* events aged just under and over one, seven and thirty days; the job run
\* with integers, None and text that is no number
RetentionNow == 31 * MinutesPerDay
RetentionAges ==
    <<MinutesPerDay - 1, MinutesPerDay + 1, 7 * MinutesPerDay, 7 * MinutesPerDay + 1,
      30 * MinutesPerDay, 30 * MinutesPerDay + 1>>
RetentionArgs ==
    {IntArg(0 - 2), IntArg(0), IntArg(1), IntArg(7), NoneArg,
     TextArg(<<>>), TextArg(<<"7", "d">>)}
AgedEvent(i) == TestEvent(i, "A", RetentionNow - RetentionAges[i])

InitRetention ==
    /\ redisBars = [k \in BarKeys |-> <<>>]
    /\ redisHod = [k \in BarKeys |-> Null]
    /\ universe = {"A"}
    /\ clock = RetentionNow
    /\ ing = IngInit(CmdKeep)
    /\ cmd = CmdIdle
    /\ pushed = [k \in BarKeys |-> NonePushed]
    /\ purged = {}
    /\ config = DefaultConfig
    /\ \E ids \in SUBSET (1..5) : events = {AgedEvent(i) : i \in ids \cup {6}}
    /\ nextEventId = 7
    /\ tick = [w \in TickIds |-> TickIdle]
    /\ pushQueue = {}
    /\ PushIdleInit
    /\ ApiIdleInit
    /\ AuxIdleInit

NextRetention ==
    \/ \E arg \in RetentionArgs : PruneEvents(arg)
    \/ AdvanceClockBy(1, RetentionNow + 1)

SpecRetention == InitRetention /\ [][NextRetention]_vars

\* --------------------------------------------- create, publish, enqueue
\* a tick on A's spike bar and the admin's test events, each of the three
\* calls a step of its own; any follower's group_send and the broker may fail
InitOrder ==
    /\ SeededInit({"A"}, CmdKeep)
    /\ config = EngineConfig(FALSE, FALSE)
    /\ events = {}
    /\ nextEventId = 1
    /\ tick = [w \in TickIds |-> TickIdle]
    /\ pushQueue = {}
    /\ PushIdleInit
    /\ ApiIdleInit
    /\ AuxIdleInit

NextOrder ==
    \/ \E s \in {"A"}, b \in {SpikeBar(DayStart + SeedCount, 11)} : FeedBar(s, b, TRUE)
    \/ TickTaskStart(1)
    \/ TickEngineStart(1)
    \/ TickResolveHod(1)
    \/ TickRebuildWrite(1)
    \/ TickGate(1)
    \/ TickPersist(1)
    \/ \E delivered \in SUBSET Users : TickPublish(1, delivered)
    \/ \E ok \in BOOLEAN : TickEnqueue(1, ok)
    \/ TickFinish(1)
    \/ \E s \in {"A"} : EmitPersist(s)
    \/ \E delivered \in SUBSET Users : EmitPublish(delivered)
    \/ \E ok \in BOOLEAN : EmitEnqueue(ok)

SpecOrder == InitOrder /\ [][NextOrder]_vars

\* ------------------------------------------- a test event, then engine ticks
\* realert off or on with a 1-minute cooldown, fixed for the run; the admin's
\* test event for A next to the spike bars of 04:05 and 04:06
InitSynthetic ==
    /\ SeededInit({"A"}, CmdKeep)
    /\ config \in {EngineConfig(FALSE, FALSE), EngineConfig(TRUE, FALSE)}
    /\ events = {}
    /\ nextEventId = 1
    /\ tick = [w \in TickIds |-> TickIdle]
    /\ pushQueue = {}
    /\ PushIdleWith(LiveFeedOff)
    /\ ApiIdleInit
    /\ AuxIdleInit

NextSynthetic ==
    \/ \E s \in {"A"}, b \in {SpikeBar(DayStart + SeedCount, 11),
                            SpikeBar(DayStart + SeedCount + 1, 12)} : FeedBar(s, b, TRUE)
    \/ AdvanceClockBy(1, EngineClockMax)
    \/ \E s \in {"A"} : EmitTestEvent(s)
    \/ TickTaskStart(1)
    \/ TickEngineStart(1)
    \/ TickResolveHod(1)
    \/ TickRebuildWrite(1)
    \/ TickGate(1)
    \/ TickCreate(1)
    \/ TickFinish(1)

SpecSynthetic == InitSynthetic /\ [][NextSynthetic]_vars

\* ===================================================================== claims

\* C1: read from the head, the timestamps of every scanner:bars:{day}:{SYM}
\* list are strictly decreasing, hence pairwise distinct, whatever bars the
\* ingestor handler and direct push_bar calls delivered.
C1_StrictlyDecreasingTs ==
    \A k \in BarKeys :
        \A i \in 1..(Len(redisBars[k]) - 1) :
            redisBars[k][i].ts > redisBars[k][i + 1].ts

\* C5: once bars were pushed for a (day, symbol), get_hod_state returns
\* hod = the highest high of all of them and prev_hod = the highest high of
\* all but the last one.
C5_HodTracksPushedBars ==
    \A k \in BarKeys :
        pushed[k].hi # Null =>
            /\ GetHodState(redisHod, k[2], k[1]).hod = pushed[k].hi
            /\ GetHodState(redisHod, k[2], k[1]).prev_hod = pushed[k].prevHi

\* C9: no runtime failure (connect attempts exhausted, a symbol failing to
\* qualify or subscribe) ends the ingestor process.
C9_IngestorNeverTerminates == ing.pc # "crashed"

\* ---------------------------------------------------------- events in the table
\* an event whose config_snapshot is the one run_engine_once writes
IsEngineEvent(e) == "min_vol_1m" \in DOMAIN e.config_snapshot

\* the tags should_trigger and compute_metrics can attach
KnownTags ==
    {"RVOL_1M_THR", "RVOL_5M_THR", "PCT_1M_THR", "PCT_5M_THR", "HOD_BREAK",
     "RVOL_1M", "RVOL_5M", "UP_1M"}

HasTag(e, t) == t \in Range(e.reason_tags)

\* each tag is on the event exactly when its predicate holds of the event's
\* own columns and config_snapshot
TagsMatchSnapshot(e) ==
    LET cs == e.config_snapshot
    IN /\ HasTag(e, "RVOL_1M_THR") <=> RGe(e.rvol_1m, cs.rvol_1m_threshold)
       /\ HasTag(e, "RVOL_5M_THR") <=> RGe(e.rvol_5m, cs.rvol_5m_threshold)
       /\ HasTag(e, "PCT_1M_THR") <=> RGe(e.pct_change_1m, cs.min_pct_change_1m)
       /\ HasTag(e, "PCT_5M_THR") <=> RGe(e.pct_change_5m, cs.min_pct_change_5m)
       /\ HasTag(e, "HOD_BREAK") <=> e.broke_hod
       /\ HasTag(e, "RVOL_1M") <=> RGe(e.rvol_1m, R(1))
       /\ HasTag(e, "RVOL_5M") <=> RGe(e.rvol_5m, R(1))
       /\ HasTag(e, "UP_1M") <=> RGe(e.pct_change_1m, R(0))

\* the rule-gate predicates, read off the event's columns and config_snapshot
RuleGateHolds(e) ==
    LET cs == e.config_snapshot
    IN /\ RGe(e.vol_1m, R(cs.min_vol_1m))
       /\ RGe(e.rvol_1m, cs.rvol_1m_threshold) \/ RGe(e.rvol_5m, cs.rvol_5m_threshold)
       /\ RGe(e.pct_change_1m, cs.min_pct_change_1m)
          \/ RGe(e.pct_change_5m, cs.min_pct_change_5m)
       /\ cs.require_hod_break => e.broke_hod
       /\ cs.require_green_candle => RGe(e.c, e.o)

\* the ticks that are past their cooldown decision for some symbol
GatedTicks == {w \in TickIds : tick[w].pc \notin {"idle", "engine"} /\ tick[w].gate # Null}

\* the most recent event the gate saw lies inside the cooldown window
InsideWindow(t) ==
    /\ t.gate.last_ev # Null
    /\ t.gate.last_ev.triggered_at >= t.now - t.cfg.cooldown_minutes

\* the hod of the current metrics exceeds the one on the most recent event (NULL reads as 0)
NewHod(t) ==
    RGt(t.gate.metrics.hod,
        IF t.gate.last_ev.hod = Null THEN R(0) ELSE t.gate.last_ev.hod)

\* C2: with realert_on_new_hod off, two events that engine ticks created for
\* one symbol lie more than cooldown_minutes apart: the later tick found the
\* earlier event older than its now - cooldown_minutes.
C2_OneEventPerWindow ==
    \A e1 \in events : \A e2 \in events :
        (/\ IsEngineEvent(e1) /\ IsEngineEvent(e2)
         /\ e1.symbol = e2.symbol /\ e1.id < e2.id
         /\ ~e2.config_snapshot.realert_on_new_hod)
        => e1.triggered_at < e2.triggered_at - e2.config_snapshot.cooldown_minutes

\* a tick with realert off refused a symbol inside the window although the
\* rule gate passes on its metrics
C2_Witness ==
    \E w \in GatedTicks :
        /\ ~tick[w].cfg.realert_on_new_hod
        /\ InsideWindow(tick[w])
        /\ ShouldTrigger(tick[w].gate.metrics, tick[w].cfg)[1]
        /\ ~tick[w].gate.allowed

\* C3: with realert_on_new_hod on, the cooldown gate allows inside the window
\* exactly when the current hod is strictly above the hod of the most recent
\* event; without a prior event, or with one older than now - cooldown_minutes,
\* it allows.
C3_RealertGate ==
    \A w \in GatedTicks :
        tick[w].cfg.realert_on_new_hod =>
            IF InsideWindow(tick[w])
            THEN tick[w].gate.allowed <=> NewHod(tick[w])
            ELSE tick[w].gate.allowed

\* a re-alert: inside the window, allowed on a higher hod
C3_Witness ==
    \E w \in GatedTicks :
        /\ tick[w].cfg.realert_on_new_hod
        /\ InsideWindow(tick[w])
        /\ tick[w].gate.last_ev.hod # Null
        /\ tick[w].gate.allowed

\* C6 as stated, for every stored event: its tags are among the eight of the
\* engine, each present exactly when its predicate holds of the event.
C6_EveryEventTagsJustified ==
    \A e \in events :
        /\ Range(e.reason_tags) \subseteq KnownTags
        /\ IsEngineEvent(e) => TagsMatchSnapshot(e)

\* C6, amended: for every event stored by an engine tick, the tags are among
\* the eight of the engine, each present exactly when its predicate holds of
\* the event's own columns and config_snapshot.
C6_EngineEventTagsJustified ==
    \A e \in events :
        IsEngineEvent(e) =>
            /\ Range(e.reason_tags) \subseteq KnownTags
            /\ TagsMatchSnapshot(e)

\* an engine event that crossed the 5-minute price threshold but not the 1-minute one
C6_Witness ==
    \E e \in events :
        /\ IsEngineEvent(e)
        /\ HasTag(e, "PCT_5M_THR")
        /\ ~HasTag(e, "PCT_1M_THR")

\* C7: an event an engine tick inserts satisfies every rule-gate predicate
\* against its own config_snapshot, and the inserting tick's cooldown gate
\* had allowed that symbol at the event's triggered_at.
C7_CreatedEventPassedGates ==
    [][\A e \in events' \ events :
          IsEngineEvent(e) =>
              /\ RuleGateHolds(e)
              /\ \E w \in GatedTicks :
                    /\ tick[w].pc = "create"
                    /\ tick[w].gate.symbol = e.symbol
                    /\ tick[w].now = e.triggered_at
                    /\ tick[w].gate.allowed]_vars

\* an engine event created under a config that demands a HOD break and a green candle
C7_Witness ==
    \E e \in events :
        /\ IsEngineEvent(e)
        /\ e.config_snapshot.require_hod_break
        /\ e.config_snapshot.require_green_candle

\* C4: any two HTTP push attempts for one (event, user) were admitted by
\* cache.add calls at least the idempotency TTL apart: while the key of an
\* attempt lives, no execution of the task, sequential or concurrent, makes
\* another attempt for that pair.
C4_OneAttemptPerTtl ==
    \A i \in 1..Len(attempts) : \A j \in 1..Len(attempts) :
        (/\ i # j
         /\ attempts[i].event_id = attempts[j].event_id
         /\ attempts[i].user_id = attempts[j].user_id
         /\ attempts[i].addedAt <= attempts[j].addedAt)
        => attempts[j].addedAt - attempts[i].addedAt >= PushTtlMinutes

\* an execution found the key of an earlier attempt for the same pair and skipped the user
C4_Witness ==
    \E w \in PushWorkerIds :
        /\ pw[w].pc # "idle"
        /\ \E u \in pw[w].refused : \E i \in 1..Len(attempts) :
              /\ attempts[i].event_id = pw[w].trigger_id
              /\ attempts[i].user_id = u

\* the feed session is lost while the ingestor is subscribed to the whole,
\* non-empty universe
FeedLost ==
    /\ ing.pc = "monitor"
    /\ ~ing.connected
    /\ universe # {}
    /\ universe = ing.current
    /\ ing.subscriptions = ing.current

\* connected again and subscribed to the universe
Resubscribed ==
    /\ ing.pc = "monitor"
    /\ ing.connected
    /\ ing.subscriptions = universe

\* C8: a lost feed session leads to a reconnect: from FeedLost the ingestor
\* eventually is connected and subscribed to the same symbols again, unless
\* the universe changes meanwhile.
C8_DisconnectLeadsToReconnect ==
    FeedLost ~> (Resubscribed \/ universe # ing.current)

\* C10: once delete_symbol has returned for a symbol that was removed from the
\* universe, no scanner:bars:*:SYM or scanner:hod:*:SYM key exists for as long
\* as the symbol stays out of the universe.
C10_RemovedSymbolKeysStayDeleted ==
    \A s \in purged :
        ScanSymbolKeys(redisBars, redisHod, s) = [hods |-> {}, bars |-> {}]

\* a symbol whose stream is up while the universe differs from the subscribed
\* set, the symbol itself staying in both
StreamKeptAcrossChange(s) ==
    /\ ing.pc = "monitor"
    /\ ing.connected
    /\ s \in ing.subscriptions
    /\ s \in ing.current
    /\ s \in universe
    /\ universe # ing.current

\* C11: when the universe changes and a symbol stays in it, the stream of that
\* symbol is uninterrupted: its subscription is not cancelled and its
\* last-pushed timestamp is kept across the reconciliation.
C11_KeptSymbolStreamUninterrupted ==
    [][\A s \in Symbols :
         StreamKeptAcrossChange(s)
         => /\ s \in ing'.subscriptions
            /\ ing.lastPushed[s] # Null => ing'.lastPushed[s] # Null]_vars

\* the events of the table with the given ids
EventsById(ids) == {e \in events : e.id \in ids}

\* C12: the trigger list and trigger detail endpoints never return to a user an
\* event with triggered_at <= the cleared_until the request found in the
\* user's settings row, whatever events were created and whatever clear
\* requests were made before and during the request; a user with no cursor
\* (and no symbol filter) gets every event of the table in the list.
C12_FeedHidesClearedEvents ==
    \A u \in Users :
        feed[u].resp # Null =>
            /\ \A e \in EventsById(feed[u].resp.items) :
                  feed[u].cursor = Null \/ e.triggered_at > feed[u].cursor[1]
            /\ (feed[u].cursor = Null /\ feed[u].symbol = Null /\ feed[u].kind = "list")
                  => feed[u].resp.items = feed[u].resp.total

\* one user's list hides an event at or before their cursor while another
\* user without a cursor gets it
C12_Witness ==
    \E u, v \in Users, e \in events :
        /\ feed[u].resp # Null /\ feed[u].kind = "list" /\ feed[u].symbol = Null
        /\ feed[u].cursor # Null /\ e.triggered_at <= feed[u].cursor[1]
        /\ e.id \in feed[u].resp.total /\ e.id \notin feed[u].resp.items
        /\ feed[v].resp # Null /\ feed[v].cursor = Null
        /\ e.id \in feed[v].resp.items

\* the user ids of the list the fan-out has gone past
FanPassed == Range(fan.user_ids) \ Range(fan.todo)

\* C13: in the websocket fan-out of a trigger or hotlist to a list of users, a
\* delivery that throws for one user does not prevent the delivery attempt to
\* any other user of the list, and the fan-out never raises to its caller: it
\* returns the number of deliveries that went through, after one attempt per user.
C13_FanOutIsolatesFailures ==
    /\ fan.pc \in {"idle", "loop", "returned"}
    /\ fan.pc # "idle" =>
          /\ fan.delivered \cup fan.failed = FanPassed
          /\ fan.delivered \cap fan.failed = {}
          /\ fan.n = Cardinality(fan.delivered)
    /\ fan.pc = "returned" => FanPassed = Range(fan.user_ids)

\* a fan-out that returned after the delivery to an earlier user of the list
\* threw and the delivery to a later user went through
C13_Witness ==
    /\ fan.pc = "returned"
    /\ \E i, j \in 1..Len(fan.user_ids) :
          /\ i < j
          /\ fan.user_ids[i] \in fan.failed
          /\ fan.user_ids[j] \in fan.delivered

\* a settings row that satisfies the audience conditions for an event time
Eligible(s, trig_ts) ==
    /\ s.follow_alerts
    /\ s.pushover_enabled
    /\ s.pushover_user_key # ""
    /\ (s.cleared_until = Null \/ s.cleared_until[1] < trig_ts)

\* this step writes the idempotency key of (e, u) or makes a push attempt for it
PushActsOn(e, u) ==
    \/ pushCache'[<<e, u>>] # pushCache[<<e, u>>]
    \/ /\ Len(attempts') = Len(attempts) + 1
       /\ attempts'[Len(attempts')].event_id = e
       /\ attempts'[Len(attempts')].user_id = u

\* C14: an idempotency key is written and a push is attempted for (event, user)
\* only by a task execution for that event whose query found the user's row
\* with follow_alerts, pushover_enabled, a non-empty user key and
\* cleared_until null or before the event's triggered_at.
C14_PushOnlyToAudience ==
    [][\A e \in EventIds, u \in Users :
         PushActsOn(e, u) =>
            \E w \in PushWorkerIds :
               /\ pw[w].pc # "idle"
               /\ pw[w].trigger_id = e
               /\ u \in DOMAIN pw[w].rows
               /\ Eligible(pw[w].rows[u], pw[w].ev.triggered_at)]_vars

\* a push was attempted for one user while the other user's cursor is at or
\* past the event and that user got neither an attempt nor a key
C14_Witness ==
    \E u, v \in Users, e \in events :
        /\ \E i \in 1..Len(attempts) :
              attempts[i].event_id = e.id /\ attempts[i].user_id = u
        /\ userSettings[v].follow_alerts /\ userSettings[v].pushover_enabled
        /\ userSettings[v].pushover_user_key # ""
        /\ userSettings[v].cleared_until # Null
        /\ userSettings[v].cleared_until[1] >= e.triggered_at
        /\ pushCache[<<e.id, v>>] = Null
        /\ \A w \in PushWorkerIds : pw[w].pc = "idle"

\* the preferences of row s skip event ev
GatingSkips(s, ev) ==
    \/ s.notify_only_hod_break /\ ~(ev.broke_hod \/ HasTag(ev, "HOD_BREAK"))
    \/ /\ s.notify_min_score # Null
       /\ (ev.score = Null \/ RLt(ev.score, s.notify_min_score[1]))

\* in this step execution w gets past the row of user u
PushPassesRow(w, u) ==
    /\ pw[w].pc # "idle" /\ pw'[w].pc # "idle"
    /\ u \in DOMAIN pw[w].rows
    /\ u \notin DOMAIN pw'[w].rows

\* the attempts made so far for an (event, user) pair
AttemptsFor(log, e, u) ==
    {i \in 1..Len(log) : log[i].event_id = e /\ log[i].user_id = u}

\* C15: push gating precedes idempotency. An execution whose row of a user is
\* skipped by notify_only_hod_break or notify_min_score makes no attempt and
\* writes no idempotency key for that user; an execution that gets past a row
\* the preferences let through leaves exactly one attempt for the pair, made
\* or under way, and replays made right after it add none.
C15_GatingBeforeIdempotency ==
    [][\A w \in PushWorkerIds, u \in Users :
         /\ PushPassesRow(w, u) =>
               IF GatingSkips(pw[w].rows[u], pw[w].ev)
               THEN /\ pushCache' = pushCache
                    /\ attempts' = attempts
                    /\ pw[w].pc = "loop"
               ELSE \/ Cardinality(AttemptsFor(attempts', pw[w].trigger_id, u)) = 1
                    \/ /\ AttemptsFor(attempts', pw[w].trigger_id, u) = {}
                       /\ \E x \in PushWorkerIds \ {w} :
                             /\ pw'[x].pc = "send"
                             /\ pw'[x].trigger_id = pw[w].trigger_id
                             /\ pw'[x].cur = <<u>>
         /\ \A e \in EventIds : Cardinality(AttemptsFor(attempts', e, u)) <= 1]_vars

\* one execution skipped user 2 by gating, the user relaxed their preferences,
\* a replay made the one attempt, and a further replay found the key taken
C15_Witness ==
    \E w, x \in PushWorkerIds :
        /\ pw[w].pc # "idle" /\ 2 \in pw[w].gated
        /\ pw[x].pc # "idle" /\ 2 \in pw[x].refused
        /\ pw[w].trigger_id = pw[x].trigger_id
        /\ Cardinality(AttemptsFor(attempts, pw[w].trigger_id, 2)) = 1
        /\ userSettings[2] \in GatingRelaxed
        /\ pushRuns = GatingRuns

\* C16: a failed send for one user does not prevent the push attempts to the
\* remaining users of the same execution: the loop goes on to the remaining
\* rows and the task ends only when no row is left, never by raising. An
\* execution for an event id that is not in the table does nothing: no loop,
\* no attempt, no idempotency key.
C16_PushFailuresIsolated ==
    [][\A w \in PushWorkerIds :
         /\ pw'[w].pc \in {"idle", "loop", "send"}
         /\ (pw[w].pc = "send" /\ pw'[w] # pw[w]) =>
               /\ pw'[w].pc = "loop"
               /\ DOMAIN pw'[w].rows = (DOMAIN pw[w].rows) \ {pw[w].cur[1]}
               /\ \A u \in DOMAIN pw'[w].rows : pw'[w].rows[u] = pw[w].rows[u]
         /\ (pw[w].pc # "idle" /\ pw'[w].pc = "idle") =>
               /\ pw[w].pc = "loop"
               /\ DOMAIN pw[w].rows = {}
         /\ (pw[w].pc = "idle" /\ pw'[w].pc # "idle") => pw'[w].ev \in events
         /\ pushRuns' # pushRuns => (pushCache' = pushCache /\ attempts' = attempts)]_vars

\* the only execution so far made attempts for both users and both sends failed
C16_Witness ==
    \E w \in PushWorkerIds :
        /\ pushRuns = 1
        /\ pw[w].pc = "loop"
        /\ pw[w].sent = 0
        /\ AttemptsFor(attempts, pw[w].trigger_id, 1) # {}
        /\ AttemptsFor(attempts, pw[w].trigger_id, 2) # {}

\* in this step the send of execution w fails: the POST is made, sent stays
PushSendFails(w) ==
    /\ pw[w].pc = "send"
    /\ pw'[w].pc = "loop"
    /\ pw'[w].sent = pw[w].sent

\* C17: a transient push HTTP error for an (event, user) pair can be retried:
\* after a failed send a later attempt for the same pair is still possible
\* within the idempotency TTL, i.e. the pair's idempotency key does not
\* block it.
C17_FailedSendCanBeRetried ==
    [][\A w \in PushWorkerIds :
         PushSendFails(w) =>
            ~CacheLive(pushCache', <<pw[w].trigger_id, pw[w].cur[1]>>, clock')]_vars

\* worker w is inside run_engine_once
InEnginePass(w) == tick[w].pc \notin {"idle", "engine"}

\* C18: two executions of the scanner tick never overlap: while one
\* scanner_tick is running its engine pass, no second one runs an engine pass.
C18_TicksNeverOverlap ==
    \A w \in TickIds : \A x \in TickIds :
        (w # x /\ InEnginePass(w)) => ~InEnginePass(x)

\* this step writes or deletes a scanner:bars:* or scanner:hod:* key
StoreWritten == redisBars' # redisBars \/ redisHod' # redisHod

\* this step is taken by the ingestor process and by no tick and no command
IngestorOnlyStep == ing' # ing /\ tick' = tick /\ cmd' = cmd

\* C19: bar and HOD keys have a single writer, the ingestor: every step that
\* changes a scanner:bars:* or scanner:hod:* key is a step of the ingestor, and
\* none is a step of an engine tick.
C19_IngestorIsOnlyStoreWriter ==
    [][StoreWritten => IngestorOnlyStep]_vars

\* this step is a push_bar call on key k with a bar whose ts is the ts of the
\* bar at the head of the list
PushOfHeadTs(k) ==
    /\ redisBars[k] # <<>>
    /\ pushed'[k].n = pushed[k].n + 1
    /\ redisBars'[k] # <<>>
    /\ Head(redisBars'[k]).ts = Head(redisBars[k]).ts

\* C20: push_bar is idempotent on the head timestamp: a call with a bar whose
\* ts equals the ts of the bar at the head of the (day, symbol) list leaves the
\* list unchanged, same length and same entries.
C20_PushBarIdempotentOnHeadTs ==
    [][\A k \in BarKeys : PushOfHeadTs(k) => redisBars'[k] = redisBars[k]]_vars

\* C21: rebuild_hod_state_from_bars is idempotent.  A call that reads the same
\* stored bar list as the previous call for the same (day, symbol) returns the
\* same (hod, prev_hod, ts) and leaves the same HOD record stored; a call that
\* finds no bars returns (None, None, None) and leaves the key as it was.
C21_RebuildHodIdempotent ==
    \A k \in BarKeys :
        rebuildLog[k] # Null =>
            /\ rebuildLog[k].repeat =>
                  /\ rebuildLog[k].ret = rebuildLog[k].prevRet[1]
                  /\ rebuildLog[k].stored = rebuildLog[k].prevStored[1]
            /\ rebuildLog[k].bars = <<>> =>
                  /\ rebuildLog[k].ret = NoHod
                  /\ rebuildLog[k].stored = rebuildLog[k].before

\* a second call over an unchanged list of six bars whose last high is a new HOD
C21_Witness ==
    \E k \in BarKeys :
        /\ rebuildLog[k] # Null
        /\ rebuildLog[k].repeat
        /\ Len(rebuildLog[k].bars) > SeedCount
        /\ rebuildLog[k].ret.hod # rebuildLog[k].ret.prev_hod

\* C22: the trading day of an instant is the America/New_York calendar date D
\* of that instant when its local time is 04:00:00 or later, and the date
\* before D when its local time is 03:59:59 or earlier.
C22_TradingDayBoundary ==
    dayq # Null =>
        LET local == ToEastern(dayq.ts_utc)
            D == local \div SecondsPerDay
            time_of_day == local % SecondsPerDay
        IN IF time_of_day <= 3 * SecondsPerHour + 59 * 60 + 59
           THEN dayq.day_id = FormatDayId(DateOfDay(D - 1))
           ELSE dayq.day_id = FormatDayId(DateOfDay(D))

\* 03:59:59 local on November 1st belongs to October 31st
C22_Witness ==
    /\ dayq # Null
    /\ ToEastern(dayq.ts_utc) = SecondsPerDay + 3 * SecondsPerHour + 59 * 60 + 59
    /\ dayq.day_id = 20241031

\* the caller is authenticated and no scanner admin: neither superuser nor
\* staff, and not the account of the configured admin e-mail
NonAdmin(user) ==
    /\ user # Null
    /\ ~user.is_superuser
    /\ ~user.is_staff
    /\ user.email \notin {"boss@desk.io", "Boss@Desk.io"}

\* a mutating request on config or universe, or any call of an admin endpoint
AdminOnly(r) ==
    \/ r.endpoint \in {"config", "universe"} /\ r.method \in {"POST", "PUT", "PATCH", "DELETE"}
    \/ r.endpoint \in {"status", "emit_test_event", "emit_test_hot5"}

\* C23: a request of an authenticated non-admin that mutates the scanner config
\* or the universe, or that calls status, emit_test_event or emit_test_hot5, is
\* answered 403 and changes neither config, universe nor events, sends nothing
\* over the websocket and enqueues no push task.
C23_NonAdminRefused ==
    [][(req' # req /\ NonAdmin(req'.user) /\ AdminOnly(req'))
          => /\ req'.status = 403
             /\ UNCHANGED <<config, universe, events, wsSent, pushQueue>>]_vars

\* the plain account was refused emit_test_event after an admin had used it
C23_Witness ==
    /\ req # Null
    /\ NonAdmin(req.user)
    /\ req.endpoint = "emit_test_event"
    /\ req.status = 403
    /\ events # {}

\* worker w loads the ScannerConfig in this step: the look of scanner_tick or
\* the one of run_engine_once
TickLoadsConfig(w) ==
    /\ tick[w].pc \in {"idle", "engine"}
    /\ \/ tick'[w] # tick[w]
       \/ \E r \in tickLog' \ tickLog : r.w = w

\* C24: a tick that loads a ScannerConfig with enabled = false ends there: it
\* creates no event, sends no trigger and no HOT-5 over the websocket, enqueues
\* no push task and writes no bar or HOD key.
C24_DisabledTickIsNoOp ==
    [][\A w \in TickIds :
          (~config.enabled /\ TickLoadsConfig(w))
              => /\ tick'[w] = TickIdle
                 /\ UNCHANGED <<events, nextEventId, wsSent, pushQueue, redisBars, redisHod>>]_vars

\* the scanner was switched off between the task's look and the engine's, with
\* a spike bar waiting in the store
C24_Witness ==
    /\ \E r \in tickLog : r.what = "disabled" /\ r.at = "run_engine_once"
    /\ \E r \in tickLog : r.what = "disabled" /\ r.at = "scanner_tick"
    /\ Len(redisBars[<<0, "A">>]) > SeedCount
    /\ events = {}

\* `items` is a right HOT-5 for the metrics list ms: min(5, number of metrics)
\* rows, each the row of one symbol of ms with its score, no symbol twice, in
\* order of score descending, and no omitted symbol scoring above the last row
HotlistRight(ms, items) ==
    /\ Len(items) = Min2(5, Len(ms))
    /\ \A i \in 1..Len(items) :
          \E j \in 1..Len(ms) : items[i] = [symbol |-> ms[j].symbol, score |-> ms[j].score]
    /\ \A i, j \in 1..Len(items) : i < j =>
          /\ items[i].symbol # items[j].symbol
          /\ RGe(items[i].score, items[j].score)
    /\ \A j \in 1..Len(ms) :
          (\A i \in 1..Len(items) : items[i].symbol # ms[j].symbol)
              => RGe(items[Len(items)].score, ms[j].score)

\* the symbols of the tick that have metrics: six bars or more were fetched
SymbolsWithMetrics(t) == {s \in DOMAIN t.barsMap : Len(t.barsMap[s]) >= MinBarsForMetrics}

\* worker w ends an enabled tick that has metrics and live-feed users
TickBroadcastDue(w) ==
    /\ tick[w].pc = "hot5"
    /\ tick'[w] = TickIdle
    /\ SymbolsWithMetrics(tick[w]) # {}
    /\ tick[w].live_feed_user_ids # {}

\* C25: the HOT-5 broadcast of an enabled tick with metrics and live-feed users
\* holds min(5, number of symbols with metrics) rows ordered by score
\* descending, every omitted symbol scoring no higher than the last row; every
\* symbol with metrics is a candidate, whether or not the cooldown or the rule
\* gate let it trigger.
C25_Hot5IsTopFiveByScore ==
    /\ [](hotq # Null => HotlistRight(hotq.all_metrics, hotq.items))
    /\ [][\A w \in TickIds : TickBroadcastDue(w) =>
             /\ {tick[w].all_metrics[i].symbol : i \in 1..Len(tick[w].all_metrics)}
                    = SymbolsWithMetrics(tick[w])
             /\ \A u \in tick[w].live_feed_user_ids :
                   \E m \in wsSent' :
                      /\ m.origin = "tick" /\ m.kind = "hot5" /\ m.user = u
                      /\ HotlistRight(tick[w].all_metrics, m.items)]_vars

\* six symbols were ranked and the first of the universe, scoring lowest, was
\* left out; and a tick broadcast A and B although B never passed the rules and
\* A, with a new score, was inside its cooldown
C25_Witness ==
    /\ hotq # Null
    /\ Len(hotq.all_metrics) = 6
    /\ Len(hotq.items) = 5
    /\ \A i \in 1..5 : hotq.items[i].symbol # "A"
    /\ \E e \in events, m \in wsSent :
          /\ e.symbol = "A"
          /\ m.origin = "tick" /\ m.kind = "hot5" /\ Len(m.items) = 2
          /\ \E i \in 1..2 : m.items[i].symbol = "A" /\ m.items[i].score # e.score
          /\ \E i \in 1..2 : m.items[i].symbol = "B"
          /\ \A x \in events : x.symbol = "A" /\ x.id = e.id

\* C26: a channel receives a payload published for user u only while it is
\* connected as authenticated user u.  Every frame a connection received is
\* addressed to the user it authenticated as; a channel is in group user_{u}
\* only while it is open and authenticated as u; an anonymous connection is
\* closed with code 4401, in no group and without a frame.
C26_ChannelReceivesOwnPayloadsOnly ==
    \A c \in Channels :
        /\ \A f \in conns[c].frames :
              ~conns[c].user.is_anonymous /\ conns[c].user.id = <<f.user_id>>
        /\ \A u \in Users :
              c \in groups[u] => conns[c].state = "open" /\ conns[c].user = LoggedIn(u)
        /\ (conns[c].user.is_anonymous /\ conns[c].close_code # Null) =>
              /\ conns[c].state = "closed"
              /\ conns[c].close_code = <<4401>>
              /\ conns[c].frames = {}

\* c1 is open as user 2 and received a trigger published for user 2, c2 was
\* turned away with 4401, and no channel is in group user_1
C26_Witness ==
    /\ conns["c1"].state = "open"
    /\ conns["c1"].user = LoggedIn(2)
    /\ [user_id |-> 2, type |-> "trigger"] \in conns["c1"].frames
    /\ conns["c2"].close_code = <<4401>>
    /\ groups[1] = {}

\* the tick of worker w loads its two audiences in this step
TickLoadsAudiences(w) == tick[w].pc = "engine" /\ tick'[w].pc = "hod"

\* what was handed to the channel layer in this step
SentNow == wsSent' \ wsSent

\* C27: a trigger payload of an engine tick goes only to the users the tick
\* loaded as followers, who are the users with follow_alerts = true at that
\* moment; the HOT-5 of a tick goes only to the users it loaded as live-feed
\* users, who are the users with live_feed_enabled = true at that moment; the
\* trigger of emit_test_event goes only to users with follow_alerts = true; the
\* synthetic HOT-5 of emit_test_hot5 goes only to the admin who asked for it.
C27_AudienceSeparation ==
    [][/\ \A w \in TickIds : TickLoadsAudiences(w) =>
              /\ tick'[w].follower_ids = {u \in Users : userSettings[u].follow_alerts}
              /\ tick'[w].live_feed_user_ids = {u \in Users : userSettings[u].live_feed_enabled}
       /\ \A m \in SentNow :
              IF m.origin = "tick"
              THEN \E w \in TickIds :
                      /\ tick'[w] # tick[w]
                      /\ IF m.kind = "trigger" THEN m.user \in tick[w].follower_ids
                         ELSE m.kind = "hot5" /\ m.user \in tick[w].live_feed_user_ids
              ELSE IF m.origin = "emit_test_event"
                   THEN m.kind = "trigger" /\ userSettings[m.user].follow_alerts
                   ELSE /\ m.origin = "emit_test_hot5" /\ m.kind = "hot5"
                        /\ req'.endpoint = "emit_test_hot5"
                        /\ req'.status = 200
                        /\ req'.user.id = m.user]_vars

\* user 1 got the tick's trigger and not its hot5, user 2 the hot5 and not the
\* trigger, and the admin's synthetic hot5 went to user 1 alone
C27_Witness ==
    /\ \E m \in wsSent : m.origin = "tick" /\ m.kind = "trigger" /\ m.user = 1
    /\ \A m \in wsSent : (m.origin = "tick" /\ m.kind = "trigger") => m.user = 1
    /\ \E m \in wsSent : m.origin = "tick" /\ m.kind = "hot5" /\ m.user = 2
    /\ \A m \in wsSent : (m.origin = "tick" /\ m.kind = "hot5") => m.user = 2
    /\ \E m \in wsSent : m.origin = "emit_test_hot5"
    /\ \A m \in wsSent : m.origin = "emit_test_hot5" => m.user = 1
    /\ userSettings[2].live_feed_enabled

\* C28: within one engine tick a failure while a symbol is processed skips
\* only that symbol: the tick never raises, every step taken inside the symbol
\* loop leaves the tick running with at most the current symbol dropped from
\* the symbols still to do, and so the tick ends only through the HOT-5 step.
C28_FailureSkipsOnlyThatSymbol ==
    /\ [](\A e \in tickLog : e.what # "raised")
    /\ [][\A w \in TickIds :
             (tick[w].pc \in LoopPcs /\ tick'[w] # tick[w]) =>
                 /\ tick'[w].pc \in LoopPcs \cup {"hot5"}
                 /\ Len(tick'[w].todo) >= Len(tick[w].todo) - 1]_vars

\* the cooldown answers of the engine for any symbol and any high of the day
CooldownAnswers(evs, cfg, now) ==
    [s \in Symbols |->
        {AllowTriggerWithCooldown([hod |-> R(h)], cfg, now, last) :
             h \in 10..12, last \in LastEventChoices(evs, s)}]

\* a per-user endpoint answered user u in this step
OwnerStep(u) ==
    /\ req' # req
    /\ req'.endpoint \in {"preferences", "clear"}
    /\ req'.user_id = u

\* C29: clear and GET/PATCH of the preferences, whatever id the URL carries,
\* read and write only the row of the requesting user: every other user's row
\* stays as it was and the response shows the requester's row; a GET changes
\* nothing; clear sets only the requester's cleared_until, to the current time,
\* deletes no event, leaves every other user's visible list as it was and
\* leaves the cooldown answers of the engine as they were.
C29_OwnerScopedSettings ==
    [][\A u \in Users : OwnerStep(u) =>
          /\ \A v \in Users \ {u} : userSettings'[v] = userSettings[v]
          /\ req'.body = userSettings'[u]
          /\ req'.method = "GET" => userSettings' = userSettings
          /\ req'.endpoint = "clear" =>
                /\ userSettings'[u] = [userSettings[u] EXCEPT !.cleared_until = <<clock>>]
                /\ events' = events
                /\ \A v \in Users \ {u} :
                      VisibleEvents(events', userSettings'[v].cleared_until)
                          = VisibleEvents(events, userSettings[v].cleared_until)
                /\ CooldownAnswers(events', config', clock')
                       = CooldownAnswers(events, config, clock)]_vars

\* user 2 has just patched follow_alerts under the URL id of user 1, whose row
\* still follows; user 1 has cleared a list that held an event, which user 2
\* still sees
C29_Witness ==
    /\ req # Null
    /\ IF "pk" \in DOMAIN req
       THEN req.endpoint = "preferences" /\ req.method = "PATCH"
            /\ req.user_id = 2 /\ req.pk = 1
       ELSE FALSE
    /\ ~userSettings[2].follow_alerts
    /\ userSettings[1].follow_alerts
    /\ userSettings[1].cleared_until # Null
    /\ events # {}
    /\ VisibleEvents(events, userSettings[1].cleared_until) = {}
    /\ VisibleEvents(events, userSettings[2].cleared_until) = events

\* a heartbeat was attempted in this step
BeatAttempted == Len(hb'.beats) = Len(hb.beats) + 1

\* the feed handler still takes bars: the stream is connected and subscribed
BarsAccepted ==
    /\ ing.pc = "monitor"
    /\ ing.connected
    /\ ing.subscriptions = ing.current

\* C30: while the ingestor is subscribed and monitoring, a heartbeat write
\* that fails leaves the monitor running and the feed handler taking bars;
\* heartbeats are attempted exactly at the first pass a full cadence after the
\* last attempt, failed or not; and as long as no write has failed the key,
\* once written, is never expired (30 s cadence, 60 s ttl).
C30_HeartbeatBestEffort ==
    /\ []((\E i \in DOMAIN hb.beats : ~hb.beats[i].ok) => BarsAccepted)
    /\ []((hb.beats # <<>> /\ \A i \in DOMAIN hb.beats : hb.beats[i].ok)
              => HeartbeatLive(hb))
    /\ [][/\ (BeatAttempted /\ ~hb'.beats[Len(hb'.beats)].ok) => ing' = ing
          /\ BeatAttempted <=>
                 (hb'.now # hb.now /\ hb'.now - hb.last_heartbeat >= HalfSeconds(HeartbeatSeconds))
          /\ BeatAttempted => hb'.last_heartbeat = hb'.now]_vars

\* written, failed one cadence later, written again one cadence after the
\* failure, with a bar taken in between
C30_Witness ==
    /\ Len(hb.beats) = 3
    /\ hb.beats[1].ok /\ ~hb.beats[2].ok /\ hb.beats[3].ok
    /\ hb.beats[3].at - hb.beats[2].at = HalfSeconds(HeartbeatSeconds)
    /\ hb.beats[3].bars > hb.beats[2].bars
    /\ HeartbeatLive(hb)

\* C31: after any sequence of push_bar calls with the same keep = N >= 1 and no
\* explicit day, the list of every (day, symbol) holds at most N bars, they are
\* the N bars handed over last for that key, newest first, and every bar of the
\* list has the key's trading day.
C31_KeepsNewestOfOneDay ==
    \A k \in BarKeys :
        /\ Len(redisBars[k]) <= ing.keep
        /\ redisBars[k] = SubSeq(barLog[k], 1, Min2(Len(barLog[k]), ing.keep))
        /\ \A i \in 1..Len(redisBars[k]) : TradingDayId(redisBars[k][i].ts) = k[1]

\* with keep = 2 three bars went to A's list of day 0, the oldest is gone, and
\* A's list of the day before holds the 03:59 bar
C31_Witness ==
    /\ ing.keep = 2
    /\ Len(barLog[<<0, "A">>]) = 3
    /\ barLog[<<0, "A">>][3].ts # barLog[<<0, "A">>][2].ts
    /\ Len(redisBars[<<0, "A">>]) = 2
    /\ Len(redisBars[<<-1, "A">>]) = 1

\* C32: whenever a HOD record exists for a (day, symbol), hod >= prev_hod >= 0
\* when both are present, and hod >= the high of the newest bar stored for
\* that (day, symbol).
C32_HodCoversNewestBar ==
    \A k \in BarKeys :
        redisHod[k] # Null =>
            /\ (redisHod[k].hod # Null /\ redisHod[k].prev_hod # Null) =>
                   /\ redisHod[k].hod[1] >= redisHod[k].prev_hod[1]
                   /\ redisHod[k].prev_hod[1] >= 0
            /\ (redisHod[k].hod # Null /\ redisBars[k] # <<>>) =>
                   redisHod[k].hod[1] >= redisBars[k][1].h

\* the symbols the tick record t holds fewer than 6 bars for
ShortSymbols(t) == {s \in DOMAIN t.barsMap : Len(t.barsMap[s]) < MinBarsForMetrics}

\* C33: a tick counts for a symbol only bars stored under the key of
\* TradingDayID(now); a symbol it holds fewer than 6 of them for is passed
\* over in one step that changes nothing else, gets no event and no HOT-5
\* entry, and the symbols with at least 6 bars all reach the metrics list.
C33_ShortSymbolsAreSkipped ==
    [][\A w \in TickIds :
          /\ TickLoadsAudiences(w) =>
                \A s \in DOMAIN tick'[w].barsMap :
                    \A i \in 1..Len(tick'[w].barsMap[s]) :
                        \E j \in 1..Len(redisBars[<<TradingDayId(clock), s>>]) :
                            tick'[w].barsMap[s][i] = redisBars[<<TradingDayId(clock), s>>][j]
          /\ (tick[w].pc = "hod" /\ tick[w].todo # <<>>
                /\ Head(tick[w].todo) \in ShortSymbols(tick[w]) /\ tick'[w] # tick[w]) =>
                /\ tick'[w] = NextSymbol(tick[w])
                /\ UNCHANGED <<events, redisHod, wsSent, pushQueue, tickLog>>
          /\ (tick[w].pc = "create" /\ tick'[w] # tick[w]) =>
                \A e \in events' \ events : e.symbol \notin ShortSymbols(tick[w])
          /\ (tick[w].pc = "hot5" /\ tick'[w] # tick[w]) =>
                /\ \A m \in wsSent' \ wsSent :
                      \A i \in 1..Len(m.items) : m.items[i].symbol \notin ShortSymbols(tick[w])
                /\ \A s \in DOMAIN tick[w].barsMap \ ShortSymbols(tick[w]) :
                      \E i \in 1..Len(tick[w].all_metrics) : tick[w].all_metrics[i].symbol = s
         ]_vars

\* B, with five bars of today and six of yesterday in the store, was passed
\* over by a tick that created A's event and sent a HOT-5 holding A alone
C33_Witness ==
    /\ Len(redisBars[<<0, "B">>]) = SeedCount
    /\ Len(redisBars[<<-1, "B">>]) = MinBarsForMetrics
    /\ \E e \in events : e.symbol = "A"
    /\ \A e \in events : e.symbol # "B"
    /\ \E m \in wsSent : m.kind = "hot5" /\ Len(m.items) = 1 /\ m.items[1].symbol = "A"
    /\ tick[1] = TickIdle

\* the retention period in days as stated for each kind of argument
StatedRetentionDays(arg) ==
    IF arg.kind = "int" /\ arg.n >= 1 THEN arg.n
    ELSE IF arg.kind = "int" /\ arg.n < 0 THEN 1
    ELSE 30

\* C34: a retention run removes exactly the events whose triggered_at lies
\* before now minus the period and leaves the others as they were; the
\* period is retention_days for an integer >= 1, 30 days for 0, None or
\* text that is no number, and 1 day for a negative integer.
C34_PruneDeletesOlderThanPeriod ==
    [][events' # events =>
          /\ pruneArg' # Null
          /\ events' = {e \in events :
                e.triggered_at >= clock - StatedRetentionDays(pruneArg') * MinutesPerDay}
      ]_vars

\* a run with retention_days = 0 removed the event one minute past thirty days
\* and kept the ones aged exactly thirty days and seven days
C34_Witness ==
    /\ pruneArg = IntArg(0)
    /\ clock = RetentionNow
    /\ AgedEvent(6) \notin events
    /\ AgedEvent(5) \in events
    /\ AgedEvent(3) \in events

\* C35: a stored bar (symbol, bar ts) is the firing bar of at most one
\* trigger event: no two events of the engine were created from the metrics
\* of the same bar of the same symbol.
C35_OneEventPerFiringBar ==
    \A x \in fired, y \in fired : (x[2] = y[2] /\ x[3] = y[3]) => x[1] = y[1]

\* C36: the per-symbol last-pushed ts advances only for bars actually
\* written: a step that sets it to t leaves a bar of ts t at the head of the
\* symbol's list for TradingDayID(t).
C36_LastPushedOnlyForWrittenBars ==
    [][\A s \in Symbols :
          (ing'.lastPushed[s] # ing.lastPushed[s] /\ ing'.lastPushed[s] # Null) =>
              LET k == <<TradingDayId(ing'.lastPushed[s][1]), s>>
              IN redisBars'[k] # <<>> /\ redisBars'[k][1].ts = ing'.lastPushed[s][1]
      ]_vars

\* the ids of the stored events
StoredIds == {e.id : e \in events}

\* entry i of the call log has an earlier entry of the given step for the same event
LoggedBefore(i, step) ==
    \E j \in 1..(i - 1) : orderLog[j].id = orderLog[i].id /\ orderLog[j].step = step

\* C37: for each event the calls come in the order create, publish, delay;
\* a push task is enqueued and a trigger payload is handed to a user group
\* only for the id of an event already in the store; and a publish in which
\* a group_send failed leaves the event stored and the creator at the delay
\* call for that id.
C37_PersistPublishEnqueue ==
    /\ [](\A i \in 1..Len(orderLog) :
             /\ orderLog[i].step = "publish" => LoggedBefore(i, "create")
             /\ orderLog[i].step = "delay" => LoggedBefore(i, "publish"))
    /\ [][/\ pushQueue' \ pushQueue \subseteq StoredIds
          /\ \A m \in wsSent' \ wsSent : m.kind = "trigger" => m.id \in StoredIds
          /\ \A c \in Creators :
                (creating[c] # Null /\ creating[c].pc = "publish" /\ creating'[c] # creating[c]) =>
                    /\ events' = events
                    /\ creating'[c] = [pc |-> "enqueue", id |-> creating[c].id]
                    /\ creating[c].id \in StoredIds
         ]_vars

\* the engine's event 1: the publish reached no follower, the task was
\* enqueued all the same, and the event is in the store
C37_Witness ==
    /\ Len(orderLog) >= 3
    /\ orderLog[2] = [step |-> "publish", id |-> 1, ok |-> FALSE]
    /\ orderLog[3] = [step |-> "delay", id |-> 1, ok |-> TRUE]
    /\ 1 \in pushQueue
    /\ \E e \in events : e.id = 1 /\ IsEngineEvent(e)
    /\ \A m \in wsSent : m.id # 1

\* the latest events of a symbol are all test events of the admin, no older
\* than the cooldown of the tick record t
SyntheticInCooldown(t, sym) ==
    LET mine == {e \in events : e.symbol = sym}
        latest == {e \in mine : \A f \in mine : f.triggered_at <= e.triggered_at}
    IN /\ mine # {}
       /\ \A e \in latest : /\ ~IsEngineEvent(e)
                            /\ e.hod = Null
                            /\ e.triggered_at >= t.now - t.cfg.cooldown_minutes

\* C38: the cooldown gate counts the admin's synthetic event like any other:
\* when the latest event of the symbol is a test event within cooldown_minutes
\* of the tick, the tick goes on to create an event for the symbol never with
\* realert_on_new_hod off, and with it on exactly when the rule gate passes
\* and the current hod is above 0.
C38_SyntheticEventStartsCooldown ==
    [][\A w \in TickIds :
          (tick[w].pc = "gate" /\ tick'[w] # tick[w]
             /\ SyntheticInCooldown(tick[w], Head(tick[w].todo))) =>
              IF ~tick[w].cfg.realert_on_new_hod
              THEN tick'[w].pc # "create"
              ELSE tick'[w].pc = "create" <=>
                      /\ ShouldTrigger(TickMetrics(tick[w]), tick[w].cfg)[1]
                      /\ RGt(TickMetrics(tick[w]).hod, R(0))
      ]_vars

\* a test event for A, then within the cooldown an engine event for A created
\* under realert_on_new_hod
C38_Witness ==
    \E e \in events, f \in events :
        /\ ~IsEngineEvent(e) /\ IsEngineEvent(f)
        /\ e.symbol = f.symbol
        /\ e.triggered_at <= f.triggered_at
        /\ f.triggered_at - e.triggered_at <= f.config_snapshot.cooldown_minutes
        /\ f.config_snapshot.realert_on_new_hod

====
